---------------------------- MODULE Spec2Model ----------------------------
(***************************************************************************)
(* NAEP score extraction and caching of the literacy visualisation         *)
(* project.                                                                *)
(*                                                                         *)
(*   - js/dataHelpers.js: loadAllNAEPData (browser extractor with its      *)
(*     three header-location strategies and the per-grade naepDataCache),  *)
(*     fetchNAEP, cacheData / loadCachedData (localStorage with a          *)
(*     timestamp).                                                         *)
(*   - scripts/clean_naep_data.js: parseNAEPFile (cleaning script          *)
(*     extractor) and the naep_cleaned.json main() writes.                 *)
(*   - js/visualization1.js (getStateScore, getNationalAverage,            *)
(*     getStateScoresForContext over its naepDataCache),                   *)
(*     js/visualization2.js (renderReadingMap) and visualization4.js       *)
(*     (avatar score, trend line): the readers of naep_cleaned.json.       *)
(*   - dataOutcomes.js (levelFromScore, hsRateProxy), helpers3.js          *)
(*     (getTopStates, getBottomStates), visualization5_integrated.js       *)
(*     (calculateLinearRegression): the derived metrics.                   *)
(*   - dataOutcomes.js: loadOutcomes with outcomesCache and its            *)
(*     localStorage item of 24 hours.                                      *)
(*   - js/visualization1.js: the prediction gauge of                       *)
(*     renderScoreComparison (updatePrediction, revealActual,              *)
(*     addToggleControls); js/visualization2.js: the grade and year        *)
(*     controls of the reading map; visualization5_integrated.js:          *)
(*     getAvatarFromLocalStorage.                                          *)
(*                                                                         *)
(* JavaScript values are records [t, n, s]: t is the typeof tag, n the     *)
(* number and s the string.  Numbers are fixed point, in tenths of a       *)
(* point (220.5 is 2205), so that parseFloat of a decimal string is exact  *)
(* for the one fractional digit the score sheets carry.                    *)
(***************************************************************************)
EXTENDS Integers, Sequences, FiniteSets, TLC

VARIABLES
    rows,           \* SpecExtract: the sheet handed to both extractors
    loaded,         \* SpecExtract: outcome of loadAllNAEPData's parse of rows
    cleaned,        \* SpecExtract: outcome of parseNAEPFile on rows
    files,          \* Spec: grade -> rows of that grade's xlsx file
    naepDataCache,  \* Spec: the module-level Map, grade -> result
    localStorage,   \* Spec, SpecOutcomes: key -> stored item
    now,            \* Spec, SpecOutcomes: Date.now(), in minutes
    calls,          \* Spec: fetchNAEP calls suspended at await fetch(...)
    started,        \* Spec: number of fetchNAEP calls made so far
    lastReturn,     \* Spec: how the most recent fetchNAEP call ended
    naepCleaned,    \* SpecTable: parsed content of data/naep_cleaned.json
    viz1NaepDataCache,  \* SpecTable: naepDataCache of js/visualization1.js
    dataCache,      \* SpecTable: dataCache.naep of js/visualization2.js
    answer,         \* SpecTable: the most recent consumer call and its result,
                    \* for the reading map the closure of its render
    input,          \* SpecMetrics: the argument handed to a helper;
                    \* SpecOutcomes: the content of the source files
    output,         \* SpecMetrics, SpecOutcomes: the function applied and
                    \* what it returned
    outcomesCache,  \* SpecOutcomes: outcomesCache of dataOutcomes.js
    gauge           \* SpecGauge: the closure and page of renderScoreComparison

vars == <<rows, loaded, cleaned, files, naepDataCache, localStorage, now,
          calls, started, lastReturn, naepCleaned, viz1NaepDataCache,
          dataCache, answer, input, output, outcomesCache, gauge>>

---------------------------------------------------------------------------
(* Bounds of the model *)

MaxRows == 3        \* rows of a sheet in SpecExtract
MaxCalls == 2       \* fetchNAEP calls made in one behaviour of Spec
MaxTicks == 2       \* clock advances in one behaviour of Spec
TickMinutes == 720  \* minutes one clock advance adds
MaxPoints == 3      \* points handed to a fit in SpecMetrics
MaxStates == 3      \* states of the library data in SpecMetrics

---------------------------------------------------------------------------
(* JavaScript values *)

Number(tenths) == [t |-> "number", n |-> tenths, s |-> ""]
Whole(points) == Number(points * 10)
Str(text) == [t |-> "string", n |-> 0, s |-> text]
Null == [t |-> "null", n |-> 0, s |-> ""]
Undefined == [t |-> "undefined", n |-> 0, s |-> ""]

\* !x
Falsy(x) ==
    \/ x.t \in {"null", "undefined"}
    \/ x.t = "number" /\ x.n = 0
    \/ x.t = "string" /\ x.s = ""

\* a || b
Or(a, b) == IF Falsy(a) THEN b ELSE a

Min(S) == CHOOSE x \in S : \A y \in S : x <= y
Max(S) == CHOOSE x \in S : \A y \in S : x >= y

---------------------------------------------------------------------------
(* Strings *)

Ch(s, i) == SubSeq(s, i, i)

Digits == <<"0", "1", "2", "3", "4", "5", "6", "7", "8", "9">>
DigitValue == [c \in {Digits[d] : d \in 1..10} |-> (CHOOSE d \in 1..10 : Digits[d] = c) - 1]
IsDigit(c) == c \in DOMAIN DigitValue
DigitVal(c) == DigitValue[c]

UpperCase == "ABCDEFGHIJKLMNOPQRSTUVWXYZ"
LowerCase == "abcdefghijklmnopqrstuvwxyz"
LowerOf == [c \in {Ch(UpperCase, k) : k \in 1..26} |->
               Ch(LowerCase, CHOOSE k \in 1..26 : Ch(UpperCase, k) = c)]

LowerCh(c) == IF c \in DOMAIN LowerOf THEN LowerOf[c] ELSE c

\* String.prototype.toLowerCase
RECURSIVE toLowerCase(_)
toLowerCase(s) ==
    IF Len(s) = 0 THEN ""
    ELSE LowerCh(Ch(s, 1)) \o toLowerCase(SubSeq(s, 2, Len(s)))

\* white space: the sheets of RowPool hold no other kind than the blank
IsSpace(c) == c = " "

\* String.prototype.trim
trim(s) ==
    LET keep == {i \in 1..Len(s) : ~IsSpace(Ch(s, i))}
    IN  IF keep = {} THEN "" ELSE SubSeq(s, Min(keep), Max(keep))

\* String.prototype.includes
includes(s, sub) ==
    \E i \in 1..(Len(s) - Len(sub) + 1) : SubSeq(s, i, i + Len(sub) - 1) = sub

\* s.replace(/\s+/g, ' ')
RECURSIVE collapseSpaces(_)
collapseSpaces(s) ==
    IF Len(s) = 0 THEN ""
    ELSE IF IsSpace(Ch(s, 1))
         THEN LET rest == {i \in 1..Len(s) : ~IsSpace(Ch(s, i))}
              IN  " " \o (IF rest = {} THEN ""
                          ELSE collapseSpaces(SubSeq(s, Min(rest), Len(s))))
         ELSE Ch(s, 1) \o collapseSpaces(SubSeq(s, 2, Len(s)))

\* decimal digits of a natural number
RECURSIVE NatToString(_)
NatToString(k) ==
    IF k < 10 THEN Digits[k + 1]
    ELSE NatToString(k \div 10) \o Digits[(k % 10) + 1]

\* String(x) of a number held in tenths
NumberToString(tenths) ==
    LET a == IF tenths < 0 THEN -tenths ELSE tenths
        body == NatToString(a \div 10) \o
                (IF a % 10 = 0 THEN "" ELSE "." \o Digits[(a % 10) + 1])
    IN  IF tenths < 0 THEN "-" \o body ELSE body

\* String(x)
String(x) ==
    CASE x.t = "string" -> x.s
      [] x.t = "number" -> NumberToString(x.n)
      [] x.t = "null" -> "null"
      [] OTHER -> "undefined"

\* value of a string of digits
RECURSIVE DigitsToNat(_)
DigitsToNat(s) ==
    IF Len(s) = 0 THEN 0
    ELSE DigitsToNat(SubSeq(s, 1, Len(s) - 1)) * 10 + DigitVal(Ch(s, Len(s)))

\* length of the longest prefix of s from position i made of digits
RECURSIVE DigitRun(_, _)
DigitRun(s, i) ==
    IF i <= Len(s) /\ IsDigit(Ch(s, i)) THEN 1 + DigitRun(s, i + 1) ELSE 0

\* s.match(/^(\d+\.?\d*)/): the matched text, or "" when there is no match
LeadingNumber(s) ==
    LET w == DigitRun(s, 1)
    IN  IF w = 0 THEN ""
        ELSE IF w < Len(s) /\ Ch(s, w + 1) = "."
             THEN SubSeq(s, 1, w + 1 + DigitRun(s, w + 2))
             ELSE SubSeq(s, 1, w)

\* parseFloat of a text LeadingNumber matched, in tenths: exact for a text
\* with at most one fractional digit, which is all the sheets of RowPool hold
parseFloat(m) ==
    LET w == DigitRun(m, 1)
        frac == IF w + 2 <= Len(m) THEN DigitVal(Ch(m, w + 2)) ELSE 0
    IN  DigitsToNat(SubSeq(m, 1, w)) * 10 + frac

---------------------------------------------------------------------------
(* Sheets: XLSX.utils.sheet_to_json(ws, {header: 1, defval: null}) *)

\* rows[i] and row[j] with the 0-based indices of the source
Row(grid, i) == grid[i + 1]
Cell(row, j) == IF j + 1 \in DOMAIN row THEN row[j + 1] ELSE Undefined

\* String(row[j] || '').trim()
CellText(row, j) == trim(String(Or(Cell(row, j), Str(""))))

FirstOf(S) == IF S = {} THEN -1 ELSE Min(S)

\* /^(199[2-9]|200[0-9]|201[0-9]|202[0-2])$/.test(s)
YearPattern(s) ==
    /\ Len(s) = 4
    /\ IsDigit(Ch(s, 4))
    /\ \/ SubSeq(s, 1, 3) = "199" /\ DigitVal(Ch(s, 4)) \in 2..9
       \/ SubSeq(s, 1, 3) = "200"
       \/ SubSeq(s, 1, 3) = "201"
       \/ SubSeq(s, 1, 3) = "202" /\ DigitVal(Ch(s, 4)) \in 0..2

\* the name table of loadAllNAEPData, with its 'United States' entry
stateNameToCode ==
    [name \in {"Alabama", "Alaska", "Arizona", "Arkansas", "California",
               "Colorado", "Connecticut", "Delaware", "District of Columbia",
               "Florida", "Georgia", "Hawaii", "Idaho", "Illinois", "Indiana",
               "Iowa", "Kansas", "Kentucky", "Louisiana", "Maine", "Maryland",
               "Massachusetts", "Michigan", "Minnesota", "Mississippi",
               "Missouri", "Montana", "Nebraska", "Nevada", "New Hampshire",
               "New Jersey", "New Mexico", "New York", "North Carolina",
               "North Dakota", "Ohio", "Oklahoma", "Oregon", "Pennsylvania",
               "Rhode Island", "South Carolina", "South Dakota", "Tennessee",
               "Texas", "Utah", "Vermont", "Virginia", "Washington",
               "West Virginia", "Wisconsin", "Wyoming", "United States"} |->
        CASE name = "Alabama" -> "AL" [] name = "Alaska" -> "AK"
          [] name = "Arizona" -> "AZ" [] name = "Arkansas" -> "AR"
          [] name = "California" -> "CA" [] name = "Colorado" -> "CO"
          [] name = "Connecticut" -> "CT" [] name = "Delaware" -> "DE"
          [] name = "District of Columbia" -> "DC" [] name = "Florida" -> "FL"
          [] name = "Georgia" -> "GA" [] name = "Hawaii" -> "HI"
          [] name = "Idaho" -> "ID" [] name = "Illinois" -> "IL"
          [] name = "Indiana" -> "IN" [] name = "Iowa" -> "IA"
          [] name = "Kansas" -> "KS" [] name = "Kentucky" -> "KY"
          [] name = "Louisiana" -> "LA" [] name = "Maine" -> "ME"
          [] name = "Maryland" -> "MD" [] name = "Massachusetts" -> "MA"
          [] name = "Michigan" -> "MI" [] name = "Minnesota" -> "MN"
          [] name = "Mississippi" -> "MS" [] name = "Missouri" -> "MO"
          [] name = "Montana" -> "MT" [] name = "Nebraska" -> "NE"
          [] name = "Nevada" -> "NV" [] name = "New Hampshire" -> "NH"
          [] name = "New Jersey" -> "NJ" [] name = "New Mexico" -> "NM"
          [] name = "New York" -> "NY" [] name = "North Carolina" -> "NC"
          [] name = "North Dakota" -> "ND" [] name = "Ohio" -> "OH"
          [] name = "Oklahoma" -> "OK" [] name = "Oregon" -> "OR"
          [] name = "Pennsylvania" -> "PA" [] name = "Rhode Island" -> "RI"
          [] name = "South Carolina" -> "SC" [] name = "South Dakota" -> "SD"
          [] name = "Tennessee" -> "TN" [] name = "Texas" -> "TX"
          [] name = "Utah" -> "UT" [] name = "Vermont" -> "VT"
          [] name = "Virginia" -> "VA" [] name = "Washington" -> "WA"
          [] name = "West Virginia" -> "WV" [] name = "Wisconsin" -> "WI"
          [] name = "Wyoming" -> "WY" [] OTHER -> "National"]

\* stateNameToCode[firstCell] of dataHelpers.js: "" stands for undefined
LookupCode(firstCell) ==
    IF firstCell \in DOMAIN stateNameToCode THEN stateNameToCode[firstCell]
    ELSE ""

---------------------------------------------------------------------------
(* loadAllNAEPData: locating the header row and the first data row *)

NotLocated == [headerRowIndex |-> -1, dataStartRow |-> -1, ran |-> {}]

\* Strategy 1: a first cell containing "state" or "jurisdiction"
Strategy1Rows(grid) ==
    {i \in 0..(Min({15, Len(grid)}) - 1) :
        LET firstCell == toLowerCase(CellText(Row(grid, i), 0))
        IN  includes(firstCell, "state") \/ includes(firstCell, "jurisdiction")}

Strategy1(grid, loc) ==
    LET i == FirstOf(Strategy1Rows(grid))
    IN  IF i = -1 THEN [loc EXCEPT !.ran = @ \cup {1}]
        ELSE [headerRowIndex |-> i, dataStartRow |-> i + 1,
              ran |-> loc.ran \cup {1}]

\* the year cells of a row among columns 1..14
yearCount(row) ==
    Cardinality({j \in 1..(Min({Len(row), 15}) - 1) :
                    YearPattern(CellText(row, j))})

Strategy2Rows(grid) ==
    {i \in 0..(Min({15, Len(grid)}) - 1) : yearCount(Row(grid, i)) >= 3}

\* Strategy 2: the first row with three or more year cells
Strategy2(grid, loc) ==
    IF loc.headerRowIndex = -1
    THEN LET i == FirstOf(Strategy2Rows(grid))
         IN  IF i = -1 THEN [loc EXCEPT !.ran = @ \cup {2}]
             ELSE [headerRowIndex |-> i, dataStartRow |-> i + 1,
                   ran |-> loc.ran \cup {2}]
    ELSE loc

\* headerRow.some(cell => year pattern): every column, column 0 included
hasYears(row) == \E j \in 0..(Len(row) - 1) : YearPattern(CellText(row, j))

\* the row the inner loop of strategy 3 stops at for the name row i:
\* j runs upward in index from max(0, i - 5) to i - 1 and stops at the first hit
HeaderAbove(grid, i) ==
    FirstOf({j \in Max({0, i - 5})..(i - 1) : hasYears(Row(grid, j))})

\* rows whose first cell is a known name and that have a header above them
Strategy3Rows(grid) ==
    {i \in 0..(Min({30, Len(grid)}) - 1) :
        LET firstCell == CellText(Row(grid, i), 0)
        IN  /\ LookupCode(firstCell) # "" \/ firstCell = "United States"
            /\ HeaderAbove(grid, i) # -1}

\* the loop of strategy 3
Strategy3Scan(grid, loc) ==
    LET i == FirstOf(Strategy3Rows(grid))
    IN  IF i = -1 THEN [loc EXCEPT !.ran = @ \cup {3}]
        ELSE [headerRowIndex |-> HeaderAbove(grid, i), dataStartRow |-> i,
              ran |-> loc.ran \cup {3}]

\* strategy 3 without its guard: the scan runs whatever was found before
Strategy3Always(grid, loc) == Strategy3Scan(grid, loc)

\* Strategy 3: the first name row with a year row in the five rows above it
Strategy3(grid, loc) ==
    IF loc.dataStartRow = -1 THEN Strategy3Scan(grid, loc) ELSE loc

LocateHeader(grid) == Strategy3(grid, Strategy2(grid, Strategy1(grid, NotLocated)))

---------------------------------------------------------------------------
(* loadAllNAEPData: year columns, rows, result *)

\* const sesGap = 18, declared with this value at each place that adjusts a
\* score (dataHelpers.js, js/visualization1.js, visualization4.js)
sesGap == 18

\* the elements of a set of integers, in ascending order
RECURSIVE Ascending(_)
Ascending(S) ==
    IF S = {} THEN <<>> ELSE <<Min(S)>> \o Ascending(S \ {Min(S)})

\* parseInt of a year text
parseInt(s) == DigitsToNat(SubSeq(s, 1, DigitRun(s, 1)))

\* yearColumns before the sort: {index, year} of every header cell of
\* columns 1.. that matches the year pattern, in column order
FindYearColumns(headerRow) ==
    LET hits == Ascending({i \in 1..(Len(headerRow) - 1) :
                              YearPattern(CellText(headerRow, i))})
    IN  [k \in 1..Len(hits) |->
            [index |-> hits[k], year |-> CellText(headerRow, hits[k])]]

\* c placed behind every column whose year is not smaller (the sort is stable)
RECURSIVE InsertByYearDesc(_, _)
InsertByYearDesc(sorted, c) ==
    IF sorted = <<>> THEN <<c>>
    ELSE IF parseInt(Head(sorted).year) >= parseInt(c.year)
         THEN <<Head(sorted)>> \o InsertByYearDesc(Tail(sorted), c)
         ELSE <<c>> \o sorted

\* yearColumns.sort((a, b) => parseInt(b.year) - parseInt(a.year))
RECURSIVE SortByYearDesc(_)
SortByYearDesc(cols) ==
    IF cols = <<>> THEN <<>>
    ELSE InsertByYearDesc(SortByYearDesc(SubSeq(cols, 1, Len(cols) - 1)),
                          cols[Len(cols)])

\* the national average after reading natScoreCell
NationalFrom(natScoreCell, nationalAvg) ==
    CASE natScoreCell.t = "number" -> natScoreCell
      [] natScoreCell.t = "string" /\ LeadingNumber(natScoreCell.s) # "" ->
            Number(parseFloat(LeadingNumber(natScoreCell.s)))
      [] OTHER -> nationalAvg

\* score of a state row's scoreCell, null when the cell yields none (no cell
\* of a sheet is NaN, so isNaN(score) is false of every score)
ScoreFrom(scoreCell) ==
    CASE scoreCell.t = "number" -> scoreCell
      [] scoreCell.t = "string" /\ LeadingNumber(scoreCell.s) # "" ->
            Number(parseFloat(LeadingNumber(scoreCell.s)))
      [] OTHER -> Null

\* the record stored for a state
SESBands(score, nationalAvg) ==
    [Low |-> Number(score.n - sesGap * 10),
     Middle |-> score,
     High |-> Number(score.n + sesGap * 10),
     NationalAverage |-> Or(nationalAvg, score)]

\* Map.prototype.set
MapSet(map, key, value) ==
    [k \in DOMAIN map \cup {key} |-> IF k = key THEN value ELSE map[k]]

\* the test that sends a row to the national-average branch
IsNationalRow(firstCell) ==
    \/ firstCell = "United States"
    \/ includes(toLowerCase(firstCell), "united states")

\* the row loop's iteration without the continue that ends the national
\* branch: the row goes on to the state lookup
ParseRowNoSkip(row, col, acc) ==
    LET firstCell == CellText(row, 0)
        afterNational ==
            IF IsNationalRow(firstCell)
            THEN [acc EXCEPT !.nationalAvg = NationalFrom(Cell(row, col), @)]
            ELSE acc
        stateCode == LookupCode(firstCell)
        score == ScoreFrom(Cell(row, col))
    IN  IF stateCode # "" /\ score # Null
        THEN [afterNational EXCEPT !.stateData =
                 MapSet(@, stateCode, SESBands(score, afterNational.nationalAvg))]
        ELSE afterNational

\* one iteration of the row loop: acc is [stateData, nationalAvg]
ParseRow(row, col, acc) ==
    LET firstCell == CellText(row, 0)
        stateCode == LookupCode(firstCell)
        score == ScoreFrom(Cell(row, col))
    IN  IF IsNationalRow(firstCell)
        THEN [acc EXCEPT !.nationalAvg = NationalFrom(Cell(row, col), @)]
        ELSE IF stateCode # "" /\ score # Null
             THEN [acc EXCEPT !.stateData =
                      MapSet(@, stateCode, SESBands(score, acc.nationalAvg))]
             ELSE acc

\* for (let i = dataStartRow; i < rows.length; i++)
RECURSIVE ParseAllStates(_, _, _, _)
ParseAllStates(grid, i, col, acc) ==
    IF i >= Len(grid) THEN acc
    ELSE ParseAllStates(grid, i + 1, col, ParseRow(Row(grid, i), col, acc))

\* what loadAllNAEPData makes of the rows of a sheet: the value it returns
\* (and caches) or the error it throws, with the locals the claims speak of
ExtractNAEP(grid) ==
    LET loc == LocateHeader(grid)
        yearColumns == SortByYearDesc(FindYearColumns(Row(grid, loc.headerRowIndex)))
    IN  IF loc.dataStartRow = -1 \/ loc.headerRowIndex = -1
        THEN [threw |-> TRUE, error |-> "Could not parse Excel file structure",
              locals |-> loc]
        ELSE IF Len(yearColumns) = 0
        THEN [threw |-> TRUE,
              error |-> "Could not find year columns in Excel file",
              locals |-> loc]
        ELSE [threw |-> FALSE,
              value |-> ParseAllStates(grid, loc.dataStartRow,
                                       yearColumns[1].index,
                                       [stateData |-> <<>>, nationalAvg |-> Null]),
              yearColumns |-> yearColumns,
              locals |-> loc]

---------------------------------------------------------------------------
(* scripts/clean_naep_data.js: parseNAEPFile *)

\* the name table of the cleaning script: no 'United States' entry
scriptStateNameToCode ==
    [name \in DOMAIN stateNameToCode \ {"United States"} |-> stateNameToCode[name]]

\* key.toLowerCase() of every entry of the table
LowerCaseKey == [key \in DOMAIN scriptStateNameToCode |-> toLowerCase(key)]

\* stateNameToCode[stateName], then the case-insensitive scan of the entries
MatchState(stateName) ==
    IF stateName \in DOMAIN scriptStateNameToCode
    THEN scriptStateNameToCode[stateName]
    ELSE LET lower == toLowerCase(stateName)
             hits == {key \in DOMAIN scriptStateNameToCode : LowerCaseKey[key] = lower}
         IN  IF hits = {} THEN "" ELSE scriptStateNameToCode[CHOOSE key \in hits : TRUE]

\* cellStr.match(/^(19[89][0-9]|200[0-9]|201[0-9]|202[0-2])/)
YearPrefix(s) ==
    /\ Len(s) >= 4
    /\ IsDigit(Ch(s, 4))
    /\ \/ SubSeq(s, 1, 3) \in {"198", "199", "200", "201"}
       \/ SubSeq(s, 1, 3) = "202" /\ DigitVal(Ch(s, 4)) \in 0..2

\* the loop over the header cells: acc is [years, yearColumns]
RECURSIVE ParseHeaderYears(_, _, _)
ParseHeaderYears(row, j, acc) ==
    IF j >= Min({Len(row), 50}) THEN acc
    ELSE LET cell == Cell(row, j)
             cellStr == String(cell)
             year == parseInt(SubSeq(cellStr, 1, 4))
             seen == \E k \in 1..Len(acc.years) : acc.years[k] = year
         IN  IF /\ cell.t \notin {"null", "undefined"}
                /\ YearPrefix(cellStr)
                /\ year >= 1990 /\ year <= 2025 /\ ~seen
             THEN ParseHeaderYears(row, j + 1,
                      [years |-> Append(acc.years, year),
                       yearColumns |-> MapSet(acc.yearColumns, year, j)])
             ELSE ParseHeaderYears(row, j + 1, acc)

\* rows of the first 10 whose first cell holds "state" and "jurisdiction"
ScriptHeaderRows(grid) ==
    {i \in 0..(Min({10, Len(grid)}) - 1) :
        LET firstCell == toLowerCase(CellText(Row(grid, i), 0))
        IN  includes(firstCell, "state") /\ includes(firstCell, "jurisdiction")}

\* years.sort((a, b) => a - b)
SortAscending(years) == Ascending({years[k] : k \in 1..Len(years)})

\* score of one cell, null unless it is a positive number
ScriptScore(cellValue) ==
    LET score == ScoreFrom(cellValue)
    IN  IF score # Null /\ score.n > 0 THEN score ELSE Null

\* the scores of a row, year -> score, for the years whose cell yields one
YearScores(row, years, yearColumns) ==
    LET have == {years[k] : k \in 1..Len(years)}
        kept == {y \in have : ScriptScore(Cell(row, yearColumns[y])) # Null}
    IN  [y \in kept |-> ScriptScore(Cell(row, yearColumns[y]))]

\* one iteration of the row loop: acc is [stateData, nationalAvgByYear] with
\* stateOrder, the insertion order of the keys of the Map stateData
ScriptRow(row, years, yearColumns, acc) ==
    LET stateName == CellText(row, 0)
        yearScores == YearScores(row, years, yearColumns)
        stateCode == MatchState(stateName)
    IN  IF stateName = "" THEN acc
        ELSE IF includes(collapseSpaces(toLowerCase(stateName)), "united states")
        THEN [acc EXCEPT !.nationalAvgByYear =
                 [y \in DOMAIN @ \cup DOMAIN yearScores |->
                     IF y \in DOMAIN yearScores THEN yearScores[y] ELSE @[y]]]
        ELSE IF stateCode # "" /\ DOMAIN yearScores # {}
        THEN [acc EXCEPT !.stateData = MapSet(@, stateCode, yearScores),
                         !.stateOrder =
                             IF stateCode \in DOMAIN acc.stateData THEN @
                             ELSE Append(@, stateCode)]
        ELSE acc

\* for (let i = dataStartIdx; i < rows.length; i++); rows[-1] is undefined
\* and skipped, so a start of -1 reads the sheet from row 0
RECURSIVE ScriptRows(_, _, _, _, _)
ScriptRows(grid, i, years, yearColumns, acc) ==
    IF i >= Len(grid) THEN acc
    ELSE ScriptRows(grid, i + 1, years, yearColumns,
             IF i < 0 THEN acc
             ELSE ScriptRow(Row(grid, i), years, yearColumns, acc))

\* data start of the cleaning script for a header at row i
ScriptDataStart(i) == i + 2

\* parseNAEPFile on the rows of the first sheet (grade and filePath are
\* passed through and left out); it has no throw statement
parseNAEPFile(grid) ==
    LET headerRowIdx == FirstOf(ScriptHeaderRows(grid))
        dataStartIdx == IF headerRowIdx = -1 THEN -1
                        ELSE ScriptDataStart(headerRowIdx)
        parsed == IF headerRowIdx = -1
                  THEN [years |-> <<>>, yearColumns |-> <<>>]
                  ELSE ParseHeaderYears(Row(grid, headerRowIdx), 1,
                                        [years |-> <<>>, yearColumns |-> <<>>])
        years == SortAscending(parsed.years)
        body == ScriptRows(grid, dataStartIdx, years, parsed.yearColumns,
                           [stateData |-> <<>>, stateOrder |-> <<>>,
                            nationalAvgByYear |-> <<>>])
    IN  [threw |-> FALSE,
         value |-> [years |-> years,
                    stateData |-> body.stateData,
                    stateOrder |-> body.stateOrder,
                    nationalAvgByYear |-> body.nationalAvgByYear],
         locals |-> [headerRowIdx |-> headerRowIdx, dataStartIdx |-> dataStartIdx,
                     yearColumns |-> parsed.yearColumns]]

---------------------------------------------------------------------------
(* SpecExtract: both extractors applied to one sheet *)

\* the rows sheets are made of: headers of the four kinds the strategies
\* tell apart, a header that repeats a year, the aggregate row, state rows with the cell shapes of the
\* score sheets (numbers, footnoted and decimal strings, "N/A", zero and
\* negative entries), a footnote row and an empty row
LabelHeader == <<Str("State or jurisdiction"), Str("2019"), Str("2022")>>
LabelNoYears == <<Str("State/jurisdiction"), Str("Average"), Str("Level")>>
NationalRow == <<Str("United States"), Whole(220), Whole(222)>>
CaliforniaRow == <<Str("California"), Whole(215), Whole(219)>>
FootnoteRow == <<Str("NOTE: rounded"), Null, Null>>
EmptyRow == <<>>

RowPool ==
    LET YearHeader == <<Null, Whole(2017), Str("2019 "), Str("2022")>>
        ShortYearHeader == <<Str("Year"), Str("2019"), Str("2022")>>
        OldYearHeader == <<Str("1998"), Str("2002")>>
        RepeatedYearHeader ==
            <<Str("State or jurisdiction"), Str("2022"), Str("2019"), Str("2022")>>
        UpperCaseRow == <<Str("CALIFORNIA"), Whole(0), Str("219.5*")>>
        TexasRow == <<Str(" Texas "), Str("-5"), Str("0")>>
        NevadaRow == <<Str("Nevada"), Str("N/A"), Whole(-5)>>
    IN  {LabelHeader, LabelNoYears, YearHeader, ShortYearHeader, OldYearHeader,
         RepeatedYearHeader, NationalRow, CaliforniaRow, UpperCaseRow, TexasRow,
         NevadaRow, FootnoteRow, EmptyRow}

Grids == UNION {[1..n -> RowPool] : n \in 0..MaxRows}

NotRun == [threw |-> FALSE, pending |-> TRUE]
Ran(r) == "pending" \notin DOMAIN r

InitExtract ==
    /\ rows \in Grids
    /\ loaded = NotRun
    /\ cleaned = NotRun
    /\ files = <<>>
    /\ naepDataCache = <<>>
    /\ localStorage = <<>>
    /\ now = 0
    /\ calls = {}
    /\ started = 0
    /\ lastReturn = Null
    /\ naepCleaned = <<>>
    /\ viz1NaepDataCache = Null
    /\ dataCache = Null
    /\ answer = Null
    /\ input = Null
    /\ output = Null
    /\ outcomesCache = Null
    /\ gauge = Null

\* the browser extractor reads the sheet
RunLoadAllNAEPData ==
    /\ ~Ran(loaded)
    /\ loaded' = ExtractNAEP(rows)
    /\ UNCHANGED <<rows, cleaned, files, naepDataCache, localStorage, now,
                   calls, started, lastReturn, naepCleaned,
                   viz1NaepDataCache, dataCache, answer, input, output,
                   outcomesCache, gauge>>

\* the cleaning script reads the sheet
RunParseNAEPFile ==
    /\ ~Ran(cleaned)
    /\ cleaned' = parseNAEPFile(rows)
    /\ UNCHANGED <<rows, loaded, files, naepDataCache, localStorage, now,
                   calls, started, lastReturn, naepCleaned,
                   viz1NaepDataCache, dataCache, answer, input, output,
                   outcomesCache, gauge>>

NextExtract == RunLoadAllNAEPData \/ RunParseNAEPFile

SpecExtract == InitExtract /\ [][NextExtract]_vars

---------------------------------------------------------------------------
(* Spec: fetchNAEP over naepDataCache and localStorage *)

maxAgeMinutes == 1440

Grades == {4, 8}
RequestStates == {"CA", "NV"}

\* contents of data/fourth_grade_naep.xlsx and data/eighth_grade_naep.xlsx:
\* a well-formed sheet, one without a national row, one no strategy can
\* locate a header in, and one whose header has no year cell
SourceFiles ==
    {<<LabelHeader, NationalRow, CaliforniaRow>>,
     <<LabelHeader, CaliforniaRow>>,
     <<FootnoteRow, CaliforniaRow>>,
     <<LabelNoYears, CaliforniaRow>>}

\* `naep_${state}_${grade}_${subject}` with subject 'READING'
CacheKey(state, grade) ==
    "naep_" \o state \o "_" \o NatToString(grade) \o "_READING"

\* JSON.parse(JSON.stringify(data)) of an object of numbers, strings and
\* nulls: properties holding undefined are dropped, NaN and the infinities
\* are written as null, finite numbers, strings and null are kept
JSONRoundTrip(data) ==
    [k \in {f \in DOMAIN data : data[f].t # "undefined"} |->
        IF data[k].t = "number" /\ "s" \in DOMAIN data[k] /\ data[k].s # ""
        THEN Null
        ELSE data[k]]

\* cacheData(key, data): setItem is taken to succeed
cacheData(storage, key, data) ==
    MapSet(storage, key, [data |-> JSONRoundTrip(data), ts |-> now])

\* loadCachedData(key): the data, or Null for none
loadCachedData(storage, key) ==
    IF key \notin DOMAIN storage THEN Null
    ELSE IF now - storage[key].ts < maxAgeMinutes THEN storage[key].data
         ELSE Null

\* the record fetchNAEP returns from its catch block
FailureRecord ==
    [Low |-> Null, Middle |-> Null, High |-> Null, NationalAverage |-> Null]

\* stateData.get(state) || {Low: null, ..., NationalAverage: nationalAvg}
ScoresFor(result, state) ==
    IF state \in DOMAIN result.stateData THEN result.stateData[state]
    ELSE [Low |-> Null, Middle |-> Null, High |-> Null,
          NationalAverage |-> result.nationalAvg]

Returned(id, state, grade, value, loadFailed) ==
    [id |-> id, state |-> state, grade |-> grade, settled |-> "fulfilled",
     value |-> value, loadFailed |-> loadFailed]

Init ==
    /\ rows = <<>>
    /\ loaded = NotRun
    /\ cleaned = NotRun
    /\ files \in [Grades -> SourceFiles]
    /\ naepDataCache = <<>>
    /\ localStorage = <<>>
    /\ now = 0
    /\ calls = {}
    /\ started = 0
    /\ lastReturn = Null
    /\ naepCleaned = <<>>
    /\ viz1NaepDataCache = Null
    /\ dataCache = Null
    /\ answer = Null
    /\ input = Null
    /\ output = Null
    /\ outcomesCache = Null
    /\ gauge = Null

\* fetchNAEP(state, grade) up to its return or to the await of fetch() in
\* loadAllNAEPData
FetchNAEP(state, grade) ==
    LET cacheKey == CacheKey(state, grade)
        cached == loadCachedData(localStorage, cacheKey)
        id == started + 1
    IN  /\ started < MaxCalls
        /\ started' = id
        /\ IF cached # Null
           THEN /\ lastReturn' = Returned(id, state, grade, cached, FALSE)
                /\ UNCHANGED <<naepDataCache, localStorage, calls>>
           ELSE IF grade \in DOMAIN naepDataCache
           THEN LET scores == ScoresFor(naepDataCache[grade], state)
                IN  /\ localStorage' = cacheData(localStorage, cacheKey, scores)
                    /\ lastReturn' = Returned(id, state, grade, scores, FALSE)
                    /\ UNCHANGED <<naepDataCache, calls>>
           ELSE /\ calls' = calls \cup {[id |-> id, state |-> state, grade |-> grade]}
                /\ UNCHANGED <<naepDataCache, localStorage, lastReturn>>
        /\ UNCHANGED <<rows, loaded, cleaned, files, now, naepCleaned,
                       viz1NaepDataCache, dataCache, answer, input, output,
                       outcomesCache, gauge>>

\* the catch blocks of loadAllNAEPData and fetchNAEP, with default record
\* written to localStorage as well
LoadFailedCachingDefault(c, outcome) ==
    /\ outcome.threw
    /\ localStorage' = cacheData(localStorage, CacheKey(c.state, c.grade), FailureRecord)
    /\ lastReturn' = Returned(c.id, c.state, c.grade, FailureRecord, TRUE)
    /\ UNCHANGED naepDataCache

\* the load threw: loadAllNAEPData logs and rethrows, fetchNAEP logs and
\* returns the record of nulls
LoadFailed(c, outcome) ==
    /\ outcome.threw
    /\ lastReturn' = Returned(c.id, c.state, c.grade, FailureRecord, TRUE)
    /\ UNCHANGED <<naepDataCache, localStorage>>

\* the load returned, with only the requested state's record kept in the
\* table cached by grade
LoadSucceededOneState(c, outcome) ==
    /\ ~outcome.threw
    /\ LET scores == ScoresFor(outcome.value, c.state)
           kept == DOMAIN outcome.value.stateData \cap {c.state}
       IN  /\ naepDataCache' =
                 MapSet(naepDataCache, c.grade,
                        [stateData |-> [s \in kept |-> outcome.value.stateData[s]],
                         nationalAvg |-> outcome.value.nationalAvg])
           /\ localStorage' = cacheData(localStorage, CacheKey(c.state, c.grade), scores)
           /\ lastReturn' = Returned(c.id, c.state, c.grade, scores, FALSE)

\* the load returned: the result is cached by grade, the state's scores by key
LoadSucceeded(c, outcome) ==
    /\ ~outcome.threw
    /\ LET scores == ScoresFor(outcome.value, c.state)
       IN  /\ naepDataCache' = MapSet(naepDataCache, c.grade, outcome.value)
           /\ localStorage' = cacheData(localStorage, CacheKey(c.state, c.grade), scores)
           /\ lastReturn' = Returned(c.id, c.state, c.grade, scores, FALSE)

\* what loadAllNAEPData makes of each source file
Extracted == [sheet \in SourceFiles |-> ExtractNAEP(sheet)]

\* what the body of loadAllNAEPData ends in once fetch has settled
LoadOutcome(grade, ok) ==
    IF ok THEN Extracted[files[grade]]
    ELSE [threw |-> TRUE, error |-> "Failed to fetch"]

\* a suspended call resumes: the fetch was answered (ok) or failed
FetchSettles(c, ok) ==
    /\ c \in calls
    /\ calls' = calls \ {c}
    /\ \/ LoadFailed(c, LoadOutcome(c.grade, ok))
       \/ LoadSucceeded(c, LoadOutcome(c.grade, ok))
    /\ UNCHANGED <<rows, loaded, cleaned, files, now, started, naepCleaned,
                   viz1NaepDataCache, dataCache, answer, input, output,
                   outcomesCache, gauge>>

\* time passes
Tick ==
    /\ now < MaxTicks * TickMinutes
    /\ now' = now + TickMinutes
    /\ UNCHANGED <<rows, loaded, cleaned, files, naepDataCache, localStorage,
                   calls, started, lastReturn, naepCleaned,
                   viz1NaepDataCache, dataCache, answer, input, output,
                   outcomesCache, gauge>>

Next ==
    \/ \E state \in RequestStates, grade \in Grades : FetchNAEP(state, grade)
    \/ \E c \in calls, ok \in BOOLEAN : FetchSettles(c, ok)
    \/ Tick

Spec == Init /\ [][Next]_vars

---------------------------------------------------------------------------
(* Numbers and sorting shared by the consumers of the tables *)

NaN == [t |-> "number", n |-> 0, s |-> "NaN"]

\* ToNumber(x) of a number, null, undefined or a string; of the strings the
\* plain decimal ones ("12", "12.5") and the blank one are numeric
ToNumber(x) ==
    CASE x.t = "number" -> x
      [] x.t = "null" -> Number(0)
      [] x.t = "undefined" -> NaN
      [] x.t = "string" ->
            IF trim(x.s) = "" THEN Number(0)
            ELSE IF LeadingNumber(trim(x.s)) = trim(x.s)
                 THEN Number(parseFloat(trim(x.s)))
                 ELSE NaN

\* isNaN(x)
isNaN(x) == ToNumber(x) = NaN

\* a + b and a - b of values that are not both strings
Plus(a, b) ==
    IF isNaN(a) \/ isNaN(b) THEN NaN ELSE Number(ToNumber(a).n + ToNumber(b).n)
Minus(a, b) ==
    IF isNaN(a) \/ isNaN(b) THEN NaN ELSE Number(ToNumber(a).n - ToNumber(b).n)

\* obj[key]
Prop(obj, key) == IF key \in DOMAIN obj THEN obj[key] ELSE Undefined

\* the indices 1..n in the order Array.prototype.sort leaves the elements
\* with keys key[1..n] in: ascending or descending by key, elements of equal
\* key in their order of before (the sort is stable)
RECURSIVE InsertIndex(_, _, _, _)
InsertIndex(sorted, i, key, descending) ==
    IF sorted = <<>> THEN <<i>>
    ELSE IF \/ descending /\ key[Head(sorted)] >= key[i]
            \/ ~descending /\ key[Head(sorted)] <= key[i]
         THEN <<Head(sorted)>> \o InsertIndex(Tail(sorted), i, key, descending)
         ELSE <<i>> \o sorted

RECURSIVE SortedIndices(_, _, _)
SortedIndices(n, key, descending) ==
    IF n = 0 THEN <<>>
    ELSE InsertIndex(SortedIndices(n - 1, key, descending), n, key, descending)

\* array.sort(compare) with compare the difference of the keys
StableSort(array, key, descending) ==
    LET order == SortedIndices(Len(array), key, descending)
    IN  [k \in 1..Len(array) |-> array[order[k]]]

---------------------------------------------------------------------------
(* data/naep_cleaned.json as main() of the cleaning script writes it *)

\* `grade${grade}`
GradeKey(grade) == "grade" \o NatToString(grade)

\* an object with years for keys once through JSON.stringify and JSON.parse:
\* the keys are the decimal strings of the years
YearKeyed(scores) ==
    [key \in {NatToString(year) : year \in DOMAIN scores} |->
        scores[DigitsToNat(key)]]

\* one grade's entry of combined: years, states, nationalAvg; stateOrder is
\* the order of the keys of states
GradeEntry(data) ==
    [years |-> data.years,
     states |-> [code \in DOMAIN data.stateData |-> YearKeyed(data.stateData[code])],
     stateOrder |-> data.stateOrder,
     nationalAvg |-> YearKeyed(data.nationalAvgByYear)]

\* contents of the two xlsx files: a sheet with the national row and three
\* states (one without a score in the latest year, one with the score
\* 250), a sheet with a single state, one without a header row, and one
\* with three years of which the middle one has no score
TableSheets ==
    {<<LabelHeader, EmptyRow, NationalRow, CaliforniaRow,
       <<Str("Nevada"), Whole(218), Str("N/A")>>,
       <<Str("Texas"), Whole(219), Whole(250)>>>>,
     <<LabelHeader, EmptyRow, CaliforniaRow>>,
     <<FootnoteRow, CaliforniaRow>>,
     <<<<Str("State or jurisdiction"), Str("2015"), Str("2017"), Str("2019")>>,
       EmptyRow,
       <<Str("California"), Whole(215), Str("N/A"), Whole(219)>>>>}

\* what parseNAEPFile makes of each file
Cleaned == [sheet \in TableSheets |-> parseNAEPFile(sheet).value]

\* JSON.parse of the file main() writes for the two source files (allYears
\* and metadata are read by no consumer and left out)
CleanedJSON(sheets) ==
    (GradeKey(4) :> GradeEntry(Cleaned[sheets[4]]))
        @@ (GradeKey(8) :> GradeEntry(Cleaned[sheets[8]]))

---------------------------------------------------------------------------
(* SpecTable: the consumers of naep_cleaned.json *)

AvatarStates == {"CA", "NV", "TX"}
GaugeSES == {"Low", "Middle", "High"}
AvatarSES == {"low", "medium", "high"}

\* String(years[0])
LatestYear(years) ==
    IF years = <<>> THEN "undefined" ELSE NatToString(years[1])

\* gradeData.years.sort((a, b) => b - a), which sorts the array in place
SortYearsDesc(years) == StableSort(years, years, TRUE)

\* getStateScore with the score returned whatever ses is
getStateScoreNoGap(data, state, grade, ses) ==
    LET gradeKey == GradeKey(grade)
    IN  IF gradeKey \notin DOMAIN data \/ state \notin DOMAIN data[gradeKey].states
        THEN [data |-> data, value |-> Null]
        ELSE LET years == SortYearsDesc(data[gradeKey].years)
                 score == Prop(data[gradeKey].states[state], LatestYear(years))
             IN  [data |-> [data EXCEPT ![gradeKey].years = years],
                  value |-> IF Falsy(score) THEN Null ELSE score]

\* getStateScore(state, grade, ses) on the table loadNAEPData gave it: the
\* value returned and the table as the call leaves it
getStateScore(data, state, grade, ses) ==
    LET gradeKey == GradeKey(grade)
    IN  IF gradeKey \notin DOMAIN data \/ state \notin DOMAIN data[gradeKey].states
        THEN [data |-> data, value |-> Null]
        ELSE LET years == SortYearsDesc(data[gradeKey].years)
                 score == Prop(data[gradeKey].states[state], LatestYear(years))
             IN  [data |-> [data EXCEPT ![gradeKey].years = years],
                  value |->
                     IF Falsy(score) THEN Null
                     ELSE CASE ses = "Low" -> Minus(score, Whole(sesGap))
                            [] ses = "High" -> Plus(score, Whole(sesGap))
                            [] OTHER -> score]

\* getNationalAverage(grade)
getNationalAverage(data, grade) ==
    LET gradeKey == GradeKey(grade)
    IN  IF gradeKey \notin DOMAIN data
        THEN [data |-> data, value |-> Null]
        ELSE LET years == SortYearsDesc(data[gradeKey].years)
             IN  [data |-> [data EXCEPT ![gradeKey].years = years],
                  value |-> Or(Prop(data[gradeKey].nationalAvg, LatestYear(years)),
                               Null)]

\* the loop over Object.entries(gradeData.states): {state, score} of every
\* state with a base score in the latest year, from entry k on
RECURSIVE ContextScores(_, _, _, _)
ContextScores(gradeData, latestYear, ses, k) ==
    IF k > Len(gradeData.stateOrder) THEN <<>>
    ELSE LET stateCode == gradeData.stateOrder[k]
             baseScore == Prop(gradeData.states[stateCode], latestYear)
             adjustedScore ==
                 CASE ses = "Low" -> Minus(baseScore, Whole(sesGap))
                   [] ses = "High" -> Plus(baseScore, Whole(sesGap))
                   [] OTHER -> baseScore
             rest == ContextScores(gradeData, latestYear, ses, k + 1)
         IN  IF baseScore.t \notin {"null", "undefined"} /\ ~isNaN(baseScore)
             THEN <<[state |-> stateCode, score |-> adjustedScore]>> \o rest
             ELSE rest

\* getStateScoresForContext(grade, ses)
getStateScoresForContext(data, grade, ses) ==
    LET gradeKey == GradeKey(grade)
    IN  IF gradeKey \notin DOMAIN data
        THEN [data |-> data, value |-> <<>>]
        ELSE LET years == SortYearsDesc(data[gradeKey].years)
                 found == ContextScores(data[gradeKey], LatestYear(years), ses, 1)
                 stateScores ==
                     StableSort(found, [k \in 1..Len(found) |-> found[k].score.n], TRUE)
                 n == Len(stateScores)
                 Labelled(entry, label) ==
                     [state |-> entry.state, score |-> entry.score,
                      label |-> label]
             IN  [data |-> [data EXCEPT ![gradeKey].years = years],
                  value |->
                     IF n = 0 THEN <<>>
                     ELSE <<Labelled(stateScores[1], "Highest")>>
                          \o (IF n > 10
                              THEN <<Labelled(stateScores[(n \div 2) + 1], "Middle")>>
                              ELSE <<>>)
                          \o <<Labelled(stateScores[n], "Lowest")>>]

\* renderReadingMap(grade) up to currentYear: years is a sorted copy of
\* gradeData.years, yearsWithData the years some state has a positive score
\* for, currentYear the last of them
renderReadingMap(data, grade) ==
    LET gradeKey == GradeKey(grade)
    IN  IF gradeKey \notin DOMAIN data
        THEN [data |-> data, value |-> Null]
        ELSE LET gradeData == data[gradeKey]
                 years == StableSort(gradeData.years, gradeData.years, FALSE)
                 HasData(year) ==
                     \E stateCode \in DOMAIN gradeData.states :
                         LET score == Prop(gradeData.states[stateCode],
                                           NatToString(year))
                         IN  /\ score.t \notin {"null", "undefined"}
                             /\ ~isNaN(score)
                             /\ ToNumber(score).n > 0
                 yearsWithData == SelectSeq(years, HasData)
             IN  [data |-> data,
                  value |-> [yearsWithData |-> yearsWithData,
                             currentYear |->
                                 IF yearsWithData = <<>> THEN Undefined
                                 ELSE Whole(yearsWithData[Len(yearsWithData)])]]

\* avatarScore of renderLiteracyOutcomesScatter for the avatar read from
\* localStorage, on the table the render has just fetched
avatarScore(naepData, state, grade, ses) ==
    LET gradeKey == GradeKey(grade)
    IN  IF gradeKey \notin DOMAIN naepData
             \/ state \notin DOMAIN naepData[gradeKey].states
        THEN Null
        ELSE LET years == SortYearsDesc(naepData[gradeKey].years)
                 score == Prop(naepData[gradeKey].states[state], LatestYear(years))
             IN  CASE ses = "low" -> Minus(score, Whole(sesGap))
                   [] ses = "high" -> Plus(score, Whole(sesGap))
                   [] OTHER -> score

\* what loadAllNAEPData makes of each file
ExtractedTable == [sheet \in TableSheets |-> ExtractNAEP(sheet)]

\* loadNAEPData() of js/visualization1.js: the cached table, or the one
\* fetched (and cached) when none is cached
Viz1Data == IF viz1NaepDataCache # Null THEN viz1NaepDataCache ELSE naepCleaned

\* loadNAEPData() of js/visualization2.js
MapData == IF dataCache # Null THEN dataCache ELSE naepCleaned

InitTable ==
    /\ rows = <<>>
    /\ loaded = NotRun
    /\ cleaned = NotRun
    /\ files \in [Grades -> TableSheets]
    /\ naepDataCache = <<>>
    /\ localStorage = <<>>
    /\ now = 0
    /\ calls = {}
    /\ started = 0
    /\ lastReturn = Null
    /\ naepCleaned = CleanedJSON(files)
    /\ viz1NaepDataCache = Null
    /\ dataCache = Null
    /\ answer = Null
    /\ input = Null
    /\ output = Null
    /\ outcomesCache = Null
    /\ gauge = Null

\* a call of getStateScore runs to its return; the array it sorts is the one
\* the cached table holds
GetStateScore(state, grade, ses) ==
    LET r == getStateScore(Viz1Data, state, grade, ses)
    IN  /\ viz1NaepDataCache' = r.data
        /\ answer' = [fn |-> "getStateScore",
                      state |-> state, grade |-> grade, ses |-> ses,
                      value |-> r.value]
        /\ UNCHANGED <<rows, cleaned, files, naepDataCache, localStorage,
                       now, calls, started, lastReturn, naepCleaned, input,
                       output, loaded, dataCache, outcomesCache, gauge>>

GetNationalAverage(grade) ==
    LET r == getNationalAverage(Viz1Data, grade)
    IN  /\ viz1NaepDataCache' = r.data
        /\ answer' = [fn |-> "getNationalAverage",
                      state |-> "", grade |-> grade, ses |-> "",
                      value |-> r.value]
        /\ UNCHANGED <<rows, cleaned, files, naepDataCache, localStorage,
                       now, calls, started, lastReturn, naepCleaned, input,
                       output, loaded, dataCache, outcomesCache, gauge>>

GetStateScoresForContext(grade, ses) ==
    LET r == getStateScoresForContext(Viz1Data, grade, ses)
    IN  /\ viz1NaepDataCache' = r.data
        /\ answer' = [fn |-> "getStateScoresForContext",
                      state |-> "", grade |-> grade, ses |-> ses,
                      value |-> r.value]
        /\ UNCHANGED <<rows, cleaned, files, naepDataCache, localStorage,
                       now, calls, started, lastReturn, naepCleaned, input,
                       output, loaded, dataCache, outcomesCache, gauge>>

\* a render of the reading map
RenderReadingMap(grade) ==
    LET r == renderReadingMap(MapData, grade)
    IN  /\ dataCache' = r.data
        /\ answer' = [fn |-> "renderReadingMap",
                      state |-> "", grade |-> grade, ses |-> "",
                      value |-> r.value]
        /\ UNCHANGED <<rows, cleaned, files, naepDataCache, localStorage,
                       now, calls, started, lastReturn, naepCleaned, input,
                       output, loaded, viz1NaepDataCache, outcomesCache,
                       gauge>>

\* a render of the prediction chart: it fetches the file anew and keeps
\* nothing of it
RenderLiteracyOutcomesScatter(state, grade, ses) ==
    /\ answer' = [fn |-> "renderLiteracyOutcomesScatter",
                  state |-> state, grade |-> grade, ses |-> ses,
                  value |-> avatarScore(naepCleaned, state, grade, ses)]
    /\ UNCHANGED <<rows, cleaned, files, naepDataCache, localStorage, now,
                   calls, started, lastReturn, naepCleaned, input, output,
                   loaded, viz1NaepDataCache, dataCache, outcomesCache,
                   gauge>>

\* loadAllNAEPData(grade) reads the grade's xlsx file in the browser
LoadAllNAEPData(grade) ==
    /\ loaded' = ExtractedTable[files[grade]]
    /\ answer' = [fn |-> "loadAllNAEPData",
                  state |-> "", grade |-> grade, ses |-> "",
                  value |-> Null]
    /\ UNCHANGED <<rows, cleaned, files, naepDataCache, localStorage, now,
                   calls, started, lastReturn, naepCleaned, input, output,
                   viz1NaepDataCache, dataCache, outcomesCache, gauge>>

\* the year the slider handler takes for newYear, with no snapping
snapYearKept(yearsWithData, newYear) == Whole(newYear)

\* the year the slider handler takes for newYear: newYear when
\* yearsWithData includes it, else yearsWithData[distances.indexOf(
\* Math.min(...distances))], which is undefined for an empty list
snapYear(yearsWithData, newYear) ==
    LET distances ==
            [i \in DOMAIN yearsWithData |->
                IF yearsWithData[i] >= newYear THEN yearsWithData[i] - newYear
                ELSE newYear - yearsWithData[i]]
        minDistance == Min({distances[i] : i \in DOMAIN distances})
        closestIndex == Min({i \in DOMAIN distances : distances[i] = minDistance})
    IN  IF \E i \in DOMAIN yearsWithData : yearsWithData[i] = newYear
        THEN Whole(newYear)
        ELSE IF yearsWithData = <<>> THEN Undefined
        ELSE Whole(yearsWithData[closestIndex])

\* the values the range input can take: the whole numbers from its min to
\* its max (Math.min and Math.max of yearsWithData), or 0..100 when the
\* list is empty and the attributes are no numbers
SliderValues ==
    IF answer = Null THEN {}
    ELSE IF answer.fn # "renderReadingMap" \/ answer.value = Null THEN {}
    ELSE IF answer.value.yearsWithData = <<>> THEN {0, 100}
    ELSE LET years == {answer.value.yearsWithData[i] :
                          i \in DOMAIN answer.value.yearsWithData}
         IN  Min(years)..Max(years)

\* the change handler of gradeSelect on a rendered map: answer holds the
\* closure of the render (currentGrade, yearsWithData, currentYear)
GradeSelectChange(grade) ==
    /\ answer # Null
    /\ answer.fn = "renderReadingMap"
    /\ answer.value # Null
    /\ answer' = IF GradeKey(grade) \notin DOMAIN dataCache
                 THEN [answer EXCEPT !.grade = grade]
                 ELSE [answer EXCEPT !.grade = grade,
                                     !.value = renderReadingMap(dataCache, grade).value]
    /\ UNCHANGED <<rows, cleaned, files, naepDataCache, localStorage, now,
                   calls, started, lastReturn, naepCleaned, input, output,
                   loaded, viz1NaepDataCache, dataCache, outcomesCache,
                   gauge>>

\* the input handler of yearSlider on a rendered map
YearSliderInput(value) ==
    /\ answer # Null
    /\ answer.fn = "renderReadingMap"
    /\ answer.value # Null
    /\ answer' = [answer EXCEPT !.value.currentYear =
                     snapYear(answer.value.yearsWithData, value)]
    /\ UNCHANGED <<rows, cleaned, files, naepDataCache, localStorage, now,
                   calls, started, lastReturn, naepCleaned, input, output,
                   loaded, viz1NaepDataCache, dataCache, outcomesCache,
                   gauge>>

NextTable ==
    \/ \E state \in AvatarStates, grade \in Grades, ses \in GaugeSES :
          GetStateScore(state, grade, ses)
    \/ \E grade \in Grades : GetNationalAverage(grade)
    \/ \E grade \in Grades, ses \in GaugeSES : GetStateScoresForContext(grade, ses)
    \/ \E grade \in Grades : RenderReadingMap(grade)
    \/ \E state \in AvatarStates, grade \in Grades, ses \in AvatarSES :
          RenderLiteracyOutcomesScatter(state, grade, ses)
    \/ \E grade \in Grades : LoadAllNAEPData(grade)
    \/ \E grade \in Grades : GradeSelectChange(grade)
    \/ \E value \in SliderValues : YearSliderInput(value)

SpecTable == InitTable /\ [][NextTable]_vars

---------------------------------------------------------------------------
(* SpecMetrics: the helpers that derive labels, fits and rankings *)

\* a / b of two integers, kept as the fraction; 0 / 0 is NaN
Quotient(num, den) ==
    IF den # 0 THEN [t |-> "number", num |-> num, den |-> den]
    ELSE IF num = 0 THEN NaN
    ELSE [t |-> "number", n |-> 0, s |-> "Infinity"]

RECURSIVE Sum(_)
Sum(terms) == IF terms = <<>> THEN 0 ELSE Head(terms) + Sum(Tail(terms))

\* levelFromScore with <= in place of <
levelFromScoreInclusive(score) ==
    IF score.t \in {"null", "undefined"} \/ isNaN(score) THEN "Unknown"
    ELSE IF ToNumber(score).n <= 200 * 10 THEN "Below Basic"
    ELSE IF ToNumber(score).n <= 240 * 10 THEN "Basic"
    ELSE IF ToNumber(score).n <= 280 * 10 THEN "Proficient"
    ELSE "Advanced"

\* levelFromScore(score)
levelFromScore(score) ==
    IF score.t \in {"null", "undefined"} \/ isNaN(score) THEN "Unknown"
    ELSE IF ToNumber(score).n < 200 * 10 THEN "Below Basic"
    ELSE IF ToNumber(score).n < 240 * 10 THEN "Basic"
    ELSE IF ToNumber(score).n < 280 * 10 THEN "Proficient"
    ELSE "Advanced"

\* getSESCategory with > in place of >=
getSESCategoryStrict(povertyRate) ==
    IF povertyRate.t \in {"null", "undefined"} \/ isNaN(povertyRate) THEN "Unknown"
    ELSE IF ToNumber(povertyRate).n > 30 * 10 THEN "Low"
    ELSE IF ToNumber(povertyRate).n > 15 * 10 THEN "Middle"
    ELSE "High"

\* getSESCategory(povertyRate)
getSESCategory(povertyRate) ==
    IF povertyRate.t \in {"null", "undefined"} \/ isNaN(povertyRate) THEN "Unknown"
    ELSE IF ToNumber(povertyRate).n >= 30 * 10 THEN "Low"
    ELSE IF ToNumber(povertyRate).n >= 15 * 10 THEN "Middle"
    ELSE "High"

\* num and den of the fits, both times n * n so that the means need no
\* division: sums of (n x - Sx)(n y - Sy) and of (n x - Sx)^2 over the
\* points <<x, y>>; den is 0 exactly when the code's is
FitSums(data) ==
    LET n == Len(data)
        Sx == Sum([k \in 1..n |-> data[k][1]])
        Sy == Sum([k \in 1..n |-> data[k][2]])
    IN  [n |-> n, Sx |-> Sx, Sy |-> Sy,
         num |-> Sum([k \in 1..n |->
                        (n * data[k][1] - Sx) * (n * data[k][2] - Sy)]),
         den |-> Sum([k \in 1..n |->
                        (n * data[k][1] - Sx) * (n * data[k][1] - Sx)])]

\* calculateLinearRegression(data), data the points <<spending, score>>
calculateLinearRegression(data) ==
    LET f == FitSums(data)
    IN  IF f.n < 2 THEN Null
        ELSE IF f.den # 0
        THEN [slope |-> Quotient(f.num, f.den),
              intercept |-> Quotient(f.Sy * f.den - f.num * f.Sx, f.n * f.den)]
        ELSE [slope |-> Number(0), intercept |-> Quotient(f.Sy, f.n)]

\* slope and intercept of the trend line of renderScatterPlot, stateScores
\* the points <<literacyScore, prediction>>
trendLine(stateScores) ==
    LET f == FitSums(stateScores)
    IN  [slope |-> Quotient(f.num, f.den),
         intercept |-> IF f.den = 0 THEN NaN
                       ELSE Quotient(f.Sy * f.den - f.num * f.Sx, f.n * f.den)]

\* the states of NAME_TO_USPS the outcome files of the model speak of
OutcomeStates == {"AL", "AK", "AZ"}

\* hsRateProxy of loadOutcomes for every state, from the maps hsGradsByState
\* and hsRateByState; minG and maxG are undefined when no state has a count
hsRateProxy(hsGradsByState, hsRateByState) ==
    LET gradCounts == {hsGradsByState[usps].n : usps \in DOMAIN hsGradsByState}
    IN  [usps \in OutcomeStates |->
            IF /\ usps \notin DOMAIN hsRateByState
               /\ usps \in DOMAIN hsGradsByState
               /\ gradCounts # {}
               /\ Max(gradCounts) > Min(gradCounts)
            THEN Quotient((hsGradsByState[usps].n - Min(gradCounts)) * 100,
                          Max(gradCounts) - Min(gradCounts))
            ELSE Null]

\* array.slice(0, n)
SliceFromStart(array, n) ==
    IF n >= 0 THEN SubSeq(array, 1, Min({n, Len(array)}))
    ELSE SubSeq(array, 1, Max({0, Len(array) + n}))

\* sortStatesByAccess with data.states sorted where it is, without the copy
sortStatesInPlace(data, ascending) ==
    IF data = Null THEN [data |-> data, value |-> <<>>]
    ELSE LET sorted ==
                 StableSort(data.states,
                            [k \in 1..Len(data.states) |->
                                data.states[k].books_per_student],
                            ~ascending)
         IN  [data |-> [data EXCEPT !.states = sorted], value |-> sorted]

\* sortStatesByAccess(data, ascending): the array returned, and data as the
\* call leaves it (the sort is applied to the copy [...data.states])
sortStatesByAccess(data, ascending) ==
    IF data = Null THEN [data |-> data, value |-> <<>>]
    ELSE [data |-> data,
          value |-> StableSort(data.states,
                               [k \in 1..Len(data.states) |->
                                   data.states[k].books_per_student],
                               ~ascending)]

\* getTopStates(data, n) and getBottomStates(data, n)
getTopStates(data, n) ==
    LET r == sortStatesByAccess(data, FALSE)
    IN  [data |-> r.data, value |-> SliceFromStart(r.value, n)]
getBottomStates(data, n) ==
    LET r == sortStatesByAccess(data, TRUE)
    IN  [data |-> r.data, value |-> SliceFromStart(r.value, n)]

\* String.prototype.toUpperCase
RECURSIVE toUpperCase(_)
toUpperCase(s) ==
    LET c == Ch(s, 1)
        upper == IF \E k \in 1..26 : Ch(LowerCase, k) = c
                 THEN Ch(UpperCase, CHOOSE k \in 1..26 : Ch(LowerCase, k) = c)
                 ELSE c
    IN  IF Len(s) = 0 THEN "" ELSE upper \o toUpperCase(SubSeq(s, 2, Len(s)))

\* getAvatarFromLocalStorage() for the item stored under 'characterData':
\* item.json tells what JSON.parse makes of it ("absent" and "empty" are
\* replaced by '{}', "malformed" throws, "null" parses to null, "scalar" to
\* a number, string or boolean, "object" to an object with the properties
\* item.data).  A TypeError (a property of null, toLowerCase or toUpperCase
\* of a value that is no string) is caught like the SyntaxError, and the
\* default avatar returned.  sesMap is an object literal: a key it does not
\* hold itself is looked up in Object.prototype
getAvatarFromLocalStorage(item) ==
    LET default == [state |-> Str("CA"), grade |-> Whole(4),
                    sesCategory |-> Str("Middle SES"), name |-> Str("Student")]
        data == IF item.json = "object" THEN item.data
                ELSE [state |-> Undefined, grade |-> Undefined,
                      ses |-> Undefined, name |-> Undefined]
        state == Or(data.state, Str("CA"))
        grade == Or(Whole(parseInt(trim(String(data.grade)))), Whole(4))
        ses == Or(data.ses, Str("medium"))
        name == Or(data.name, Str("Student"))
        sesMap == [low |-> Str("Low SES"), medium |-> Str("Middle SES"),
                   high |-> Str("High SES")]
        inherited == [constructor |-> [t |-> "function", n |-> 1, s |-> "Object"],
                      __proto__ |-> [t |-> "object", n |-> 1, s |-> "Object.prototype"]]
        key == toLowerCase(ses.s)
        found == IF key \in DOMAIN sesMap THEN sesMap[key]
                 ELSE IF key \in DOMAIN inherited THEN inherited[key]
                 ELSE Undefined
    IN  IF item.json \in {"malformed", "null"} THEN default
        ELSE IF ses.t # "string" \/ state.t # "string" THEN default
        ELSE [state |-> Str(toUpperCase(state.s)),
              grade |-> IF grade = Whole(8) THEN Whole(8) ELSE Whole(4),
              sesCategory |-> Or(found, Str("Middle SES")),
              name |-> name]

\* the arguments the helpers are given: scores and poverty rates in tenths
\* around every threshold, null, undefined and NaN
NumberInputs ==
    {Number(n) : n \in {-10, 0, 149, 150, 151, 299, 300, 301, 1999, 2000,
                        2001, 2399, 2400, 2401, 2799, 2800, 2801, 3200}}
        \cup {Null, Undefined, NaN}

\* up to MaxPoints points <<x, y>> for the fits
PointInputs ==
    UNION {[1..n -> {3, 5} \X {1, 5, 10}] : n \in 0..MaxPoints}

\* graduate counts and graduation rates by state, each for some of the states
OutcomeInputs ==
    {[grads |-> g, rates |-> r] :
        g \in UNION {[S -> {Whole(1000), Whole(2000), Whole(4000)}] :
                        S \in SUBSET OutcomeStates},
        r \in UNION {[S -> {Whole(85)}] : S \in SUBSET OutcomeStates}}

\* data objects with up to MaxStates of four state objects in any order (two
\* of the states share books_per_student), and no data
VizDataInputs ==
    LET LibraryStates ==
            {[state |-> "VT", books_per_student |-> 258],
             [state |-> "AZ", books_per_student |-> 33],
             [state |-> "NV", books_per_student |-> 33],
             [state |-> "TX", books_per_student |-> 120]}
    IN  {[states |-> s] :
            s \in {q \in UNION {[1..n -> LibraryStates] : n \in 0..MaxStates} :
                      \A j, k \in 1..Len(q) : q[j] = q[k] => j = k}}
            \cup {Null}

\* contents of the 'characterData' item: none, the empty string, text that
\* is no JSON, 'null', a JSON scalar, and objects whose properties are
\* absent, null, of the wrong type, unknown or as the character page
\* writes them
CharacterDataInputs ==
    LET true == [t |-> "boolean", n |-> 1, s |-> ""]
        none == [state |-> Undefined, grade |-> Undefined,
                 ses |-> Undefined, name |-> Undefined]
    IN  {[json |-> j, data |-> none] :
            j \in {"absent", "empty", "malformed", "null", "scalar"}}
        \cup {[json |-> "object",
               data |-> [state |-> st, grade |-> g, ses |-> ses, name |-> n]] :
                st \in {Undefined, Null, Str(""), Str("tx"), Str("CA"), Whole(5)},
                g \in {Undefined, Null, Whole(4), Whole(8), Number(85), Whole(12),
                       Str("8"), Str(" 8th"), Str("x"), true},
                ses \in {Undefined, Str("low"), Str("HIGH"), Str("Medium"),
                         Str("rich"), Str("constructor"), Whole(1), true},
                n \in {Undefined, Str("Ada")}}

\* one helper is called once, on an argument of its kind
InitMetrics ==
    /\ rows = <<>>
    /\ loaded = NotRun
    /\ cleaned = NotRun
    /\ files = <<>>
    /\ naepDataCache = <<>>
    /\ localStorage = <<>>
    /\ now = 0
    /\ calls = {}
    /\ started = 0
    /\ lastReturn = Null
    /\ naepCleaned = <<>>
    /\ viz1NaepDataCache = Null
    /\ dataCache = Null
    /\ answer = Null
    /\ \/ input \in {[kind |-> "number", value |-> v, n |-> 0] : v \in NumberInputs}
       \/ input \in {[kind |-> "points", value |-> v, n |-> 0] : v \in PointInputs}
       \/ input \in {[kind |-> "outcomes", value |-> v, n |-> 0] :
                        v \in OutcomeInputs}
       \/ input \in {[kind |-> "vizData", value |-> v, n |-> n] :
                        v \in VizDataInputs, n \in 0..(MaxStates + 1)}
       \/ input \in {[kind |-> "characterData", value |-> v, n |-> 0] :
                        v \in CharacterDataInputs}
    /\ output = Null
    /\ outcomesCache = Null
    /\ gauge = Null

\* a helper without side effects returns value
Returns(kind, fn, value) ==
    /\ input.kind = kind
    /\ output = Null
    /\ output' = [fn |-> fn, value |-> value, data |-> input.value]
    /\ UNCHANGED <<rows, loaded, cleaned, files, naepDataCache, localStorage,
                   now, calls, started, lastReturn, naepCleaned,
                   viz1NaepDataCache, dataCache, answer, input,
                   outcomesCache, gauge>>

\* getTopStates / getBottomStates: output.data is the data object after the
\* call
GetTopStates ==
    /\ input.kind = "vizData"
    /\ output = Null
    /\ output' = [fn |-> "getTopStates"] @@ getTopStates(input.value, input.n)
    /\ UNCHANGED <<rows, loaded, cleaned, files, naepDataCache, localStorage,
                   now, calls, started, lastReturn, naepCleaned,
                   viz1NaepDataCache, dataCache, answer, input,
                   outcomesCache, gauge>>

GetBottomStates ==
    /\ input.kind = "vizData"
    /\ output = Null
    /\ output' = [fn |-> "getBottomStates"] @@ getBottomStates(input.value, input.n)
    /\ UNCHANGED <<rows, loaded, cleaned, files, naepDataCache, localStorage,
                   now, calls, started, lastReturn, naepCleaned,
                   viz1NaepDataCache, dataCache, answer, input,
                   outcomesCache, gauge>>

NextMetrics ==
    \/ Returns("number", "levelFromScore", levelFromScore(input.value))
    \/ Returns("number", "getSESCategory", getSESCategory(input.value))
    \/ Returns("points", "calculateLinearRegression",
               calculateLinearRegression(input.value))
    \/ Returns("points", "trendLine", trendLine(input.value))
    \/ Returns("outcomes", "hsRateProxy",
               hsRateProxy(input.value.grads, input.value.rates))
    \/ GetTopStates
    \/ GetBottomStates
    \/ Returns("characterData", "getAvatarFromLocalStorage",
               getAvatarFromLocalStorage(input.value))

SpecMetrics == InitMetrics /\ [][NextMetrics]_vars

---------------------------------------------------------------------------
(* SpecOutcomes: loadOutcomes of dataOutcomes.js and its two caches *)

\* 24 * 60 * 60 * 1000 milliseconds, in the minutes now counts
CACHE_DURATION == 24 * 60

\* toLiteracyScore(litP1Percent)
toLiteracyScore(litP1Percent) ==
    IF litP1Percent.t \in {"null", "undefined"} \/ isNaN(litP1Percent) THEN Null
    ELSE Number(320 * 10 - ToNumber(litP1Percent).n * 2)

\* what the three source files hold for the states of OutcomeStates: piaac
\* is the object loadPIAAC returns (a state without a Lit_P1 value has no
\* entry, a value that is no number is NaN), grads and rates the maps
\* hsGradsByState and hsRateByState, college the map collegeRateByState and
\* chosenGradCol the graduates column, undefined when the file has none
OutcomeFiles ==
    LET full == [usps \in OutcomeStates |-> Number(250)]
        piaacs == {full,
                   [usps \in OutcomeStates \ {"AZ"} |-> Number(286)],
                   [full EXCEPT !["AZ"] = NaN]}
        withColumn == [grads |-> ("AL" :> Whole(1000) @@ "AK" :> Whole(2000)),
                       rates |-> ("AL" :> Whole(85)),
                       college |-> ("AL" :> Whole(40)),
                       chosenGradCol |-> Str("2021-22")]
        noColumn == [grads |-> <<>>, rates |-> <<>>, college |-> <<>>,
                     chosenGradCol |-> Undefined]
    IN  {[piaac |-> p] @@ f : p \in piaacs, f \in {withColumn, noColumn}}

\* the result loadOutcomes builds from the files: {data: out, latestHSYear}
\* with one record per entry of NAME_TO_USPS, in its order
OutcomesResult(tables) ==
    LET names == <<"Alabama", "Alaska", "Arizona">>
        codes == <<"AL", "AK", "AZ">>
        proxy == hsRateProxy(tables.grads, tables.rates)
        Entry(usps, fullName) ==
            LET litP1 == Prop(tables.piaac, usps)
                literacyScore == toLiteracyScore(litP1)
                hsGraduates == IF usps \in DOMAIN tables.grads
                               THEN tables.grads[usps] ELSE Null
            IN  [stateName |-> Str(fullName),
                 state |-> Str(usps),
                 literacyScore |-> literacyScore,
                 level |-> Str(levelFromScore(literacyScore)),
                 litP1 |-> litP1,
                 hsGraduates |-> hsGraduates,
                 hsRate |-> IF usps \in DOMAIN tables.rates
                            THEN tables.rates[usps] ELSE Null,
                 hsRateProxy |-> proxy[usps],
                 collegeRate |-> IF usps \in DOMAIN tables.college
                                 THEN tables.college[usps] ELSE Null,
                 cohortSize |-> hsGraduates,
                 latestHSYear |-> tables.chosenGradCol]
    IN  [data |-> [i \in 1..Len(codes) |-> Entry(codes[i], names[i])],
         latestHSYear |-> tables.chosenGradCol]

\* JSON.parse(JSON.stringify(result)): of the object and of every record of
\* its data array
JSONOutcomes(result) ==
    [data |-> [i \in DOMAIN result.data |-> JSONRoundTrip(result.data[i])]]
        @@ JSONRoundTrip([latestHSYear |-> result.latestHSYear])

\* the page is loaded with the source files as input: the module is
\* evaluated, outcomesCache is null; Date.now() is positive
InitOutcomes ==
    /\ rows = <<>>
    /\ loaded = NotRun
    /\ cleaned = NotRun
    /\ files = <<>>
    /\ naepDataCache = <<>>
    /\ localStorage = <<>>
    /\ now = 1
    /\ calls = {}
    /\ started = 0
    /\ lastReturn = Null
    /\ naepCleaned = <<>>
    /\ viz1NaepDataCache = Null
    /\ dataCache = Null
    /\ answer = Null
    /\ input \in {[kind |-> "outcomeFiles", value |-> v, n |-> 0] :
                     v \in OutcomeFiles}
    /\ output = Null
    /\ outcomesCache = Null
    /\ gauge = Null

\* a call of loadOutcomes({useCache}) runs to its return.  outcomesCache and
\* output carry, with the value, the time it was computed at: for a value
\* read from localStorage that is the item's timestamp
LoadOutcomes(useCache) ==
    LET CACHE_KEY == "viz4_outcomes_cache"
        stored == CACHE_KEY \in DOMAIN localStorage
        fresh == /\ stored
                 /\ localStorage[CACHE_KEY].timestamp # 0
                 /\ now - localStorage[CACHE_KEY].timestamp < CACHE_DURATION
        result == OutcomesResult(input.value)
        Return(value, computed) ==
            output' = [fn |-> "loadOutcomes", useCache |-> useCache,
                       value |-> value, computed |-> computed, at |-> now,
                       data |-> input.value]
    IN  /\ IF useCache /\ outcomesCache # Null
           THEN /\ Return(outcomesCache.value, outcomesCache.computed)
                /\ UNCHANGED <<outcomesCache, localStorage>>
           ELSE IF useCache /\ fresh
           THEN /\ outcomesCache' = [value |-> localStorage[CACHE_KEY].data,
                                     computed |-> localStorage[CACHE_KEY].timestamp]
                /\ Return(localStorage[CACHE_KEY].data,
                          localStorage[CACHE_KEY].timestamp)
                /\ UNCHANGED localStorage
           ELSE /\ outcomesCache' = [value |-> result, computed |-> now]
                /\ localStorage' =
                      IF useCache
                      THEN MapSet(localStorage, CACHE_KEY,
                                  [data |-> JSONOutcomes(result), timestamp |-> now])
                      ELSE localStorage
                /\ Return(result, now)
        /\ UNCHANGED <<rows, loaded, cleaned, files, naepDataCache, now, calls,
                       started, lastReturn, naepCleaned, viz1NaepDataCache,
                       dataCache, answer, input, gauge>>

\* the page is loaded anew: the module is evaluated again, localStorage
\* stays
ReloadPage ==
    /\ outcomesCache # Null
    /\ outcomesCache' = Null
    /\ UNCHANGED <<rows, loaded, cleaned, files, naepDataCache, localStorage,
                   now, calls, started, lastReturn, naepCleaned,
                   viz1NaepDataCache, dataCache, answer, input, output, gauge>>

NextOutcomes ==
    \/ \E useCache \in BOOLEAN : LoadOutcomes(useCache)
    \/ ReloadPage
    \/ Tick

SpecOutcomes == InitOutcomes /\ [][NextOutcomes]_vars

---------------------------------------------------------------------------

(* SpecGauge: the prediction gauge of renderScoreComparison *)

\* the default of the domain parameter
domain == <<150, 320>>

\* updatePrediction without the clamp of the value to the domain
updatePredictionUnclamped(g, newX) ==
    LET innerW == (850 - 30 - 30) * 10
        clampedX == Max({0, Min({innerW, newX})})
        num == 140 * innerW + clampedX * (320 - 140)
    IN  IF g.isRevealed THEN g
        ELSE [g EXCEPT !.userPrediction = (2 * num + innerW) \div (2 * innerW)]

\* updatePrediction(newX), newX in tenths of a pixel.  x maps the domain
\* d3 makes of [150, 320] with nice(), which is [140, 320], onto
\* [0, innerW]; x.invert(newX) is num / innerW, and Math.round(v) is
\* floor(v + 1/2)
updatePrediction(g, newX) ==
    LET innerW == (850 - 30 - 30) * 10
        clampedX == Max({0, Min({innerW, newX})})
        num == 140 * innerW + clampedX * (320 - 140)
        clampedValue == Max({domain[1] * innerW, Min({domain[2] * innerW, num})})
    IN  IF g.isRevealed THEN g
        ELSE [g EXCEPT !.userPrediction =
                 (2 * clampedValue + innerW) \div (2 * innerW)]

\* revealActual without the test of isRevealed
revealActualRepeated(g) ==
    [g EXCEPT !.isRevealed = TRUE,
              !.resultMessages = @ + 1,
              !.timeouts = @ + 1]

\* revealActual(): the first call sets isRevealed, appends the result
\* message to wrap and schedules addToggleControls
revealActual(g) ==
    IF g.isRevealed THEN g
    ELSE [g EXCEPT !.isRevealed = TRUE,
                   !.resultMessages = @ + 1,
                   !.timeouts = @ + 1]

\* addToggleControls() up to its insert of #explore-controls into wrap
addToggleControls(g) ==
    IF g.exploreControls > 0 THEN g
    ELSE [g EXCEPT !.exploreControls = @ + 1]

\* pointer positions in tenths of a pixel, relative to the track: left of
\* it, on it every 25 pixels and at its last tenths, and right of it
PointerXs ==
    {-10000, -5, 7895, 7899, 7900, 10000} \cup {250 * k : k \in 0..31}

\* the page after renderScoreComparison has drawn the gauge
InitGauge ==
    /\ rows = <<>>
    /\ loaded = NotRun
    /\ cleaned = NotRun
    /\ files = <<>>
    /\ naepDataCache = <<>>
    /\ localStorage = <<>>
    /\ now = 0
    /\ calls = {}
    /\ started = 0
    /\ lastReturn = Null
    /\ naepCleaned = <<>>
    /\ viz1NaepDataCache = Null
    /\ dataCache = Null
    /\ answer = Null
    /\ input = Null
    /\ output = Null
    /\ outcomesCache = Null
    /\ gauge = [userPrediction |-> (2 * (domain[1] + domain[2]) + 2) \div 4,
                isRevealed |-> FALSE, isDragging |-> FALSE,
                resultMessages |-> 0, timeouts |-> 0, exploreControls |-> 0]

\* an event handler of the gauge, or a timer callback, runs and leaves the
\* closure and the page as after
GaugeEvent(after) ==
    /\ gauge' = after
    /\ UNCHANGED <<rows, loaded, cleaned, files, naepDataCache, localStorage,
                   now, calls, started, lastReturn, naepCleaned,
                   viz1NaepDataCache, dataCache, answer, input, output,
                   outcomesCache>>

\* the start, drag and end listeners of d3.drag() on the handle, the click
\* listener of the track, the click listener of the reveal button (which
\* stays on the page while its transition runs) and the timeout that
\* revealActual sets
NextGauge ==
    \/ /\ ~gauge.isDragging
       /\ GaugeEvent([gauge EXCEPT !.isDragging = TRUE])
    \/ \E x \in PointerXs :
          /\ gauge.isDragging
          /\ GaugeEvent(IF ~gauge.isRevealed THEN updatePrediction(gauge, x)
                        ELSE gauge)
    \/ /\ gauge.isDragging
       /\ GaugeEvent([gauge EXCEPT !.isDragging = FALSE])
    \/ \E mouseX \in PointerXs :
          GaugeEvent(IF gauge.isRevealed THEN gauge
                     ELSE updatePrediction(gauge, mouseX))
    \/ GaugeEvent(revealActual(gauge))
    \/ /\ gauge.timeouts > 0
       /\ GaugeEvent(addToggleControls([gauge EXCEPT !.timeouts = @ - 1]))

SpecGauge == InitGauge /\ [][NextGauge]_vars

---------------------------------------------------------------------------

(* Claims C1..C10 *)

\* the pair (headerRowIndex, dataStartRow) loadAllNAEPData ended with
Located == <<loaded.locals.headerRowIndex, loaded.locals.dataStartRow>>

\* C1: the three header-location strategies of loadAllNAEPData run in strict
\* order: strategy 2 runs only when strategy 1 found nothing, strategy 3 only
\* when strategies 1 and 2 found nothing, and whenever strategy 1 fails and
\* strategy 2 succeeds the pair (headerRowIndex, dataStartRow) is the one
\* strategy 2 computes (its first row with three year cells, and the row
\* after it).
C1_StrictOrder ==
    Ran(loaded) =>
        LET failed1 == Strategy1Rows(rows) = {}
            found2 == Strategy2Rows(rows)
        IN  /\ 1 \in loaded.locals.ran
            /\ 2 \in loaded.locals.ran <=> failed1
            /\ 3 \in loaded.locals.ran <=> (failed1 /\ found2 = {})
            /\ (failed1 /\ found2 # {}) =>
                  Located = <<Min(found2), Min(found2) + 1>>

\* C1 witness: strategy 1 fails, strategy 2 succeeds, and strategy 3, had it
\* run, would have located a different pair.
C1_Witness ==
    /\ Ran(loaded)
    /\ Strategy1Rows(rows) = {}
    /\ Strategy2Rows(rows) # {}
    /\ Strategy3Rows(rows) # {}
    /\ Located # <<HeaderAbove(rows, Min(Strategy3Rows(rows))),
                   Min(Strategy3Rows(rows))>>

C2Grid == <<LabelHeader, NationalRow, CaliforniaRow>>

\* C2: for the sheet ["State or jurisdiction", "2019", "2022"],
\* ["United States", 220, 222], ["California", 215, 219] extraction yields
\* years [2019, 2022], the national values {2019: 220, 2022: 222} and the CA
\* record {2019: 215, 2022: 219}; the row right under the header is data and
\* the aggregate row is not lost (loadAllNAEPData, which keeps the latest
\* year only: national 222 and CA 219).
C2_EndToEnd ==
    rows = C2Grid =>
        /\ Ran(cleaned) =>
              /\ ~cleaned.threw
              /\ cleaned.value.years = <<2019, 2022>>
              /\ cleaned.value.nationalAvgByYear =
                    (2019 :> Whole(220) @@ 2022 :> Whole(222))
              /\ DOMAIN cleaned.value.stateData = {"CA"}
              /\ cleaned.value.stateData["CA"] =
                    (2019 :> Whole(215) @@ 2022 :> Whole(219))
        /\ Ran(loaded) =>
              /\ ~loaded.threw
              /\ loaded.locals.dataStartRow = 1
              /\ loaded.value.nationalAvg = Whole(222)
              /\ DOMAIN loaded.value.stateData = {"CA"}
              /\ loaded.value.stateData["CA"].Middle = Whole(219)

Positive(v) == v.t = "number" /\ v.n > 0

\* C3: every value the extractors store for an (entity, year) pair and every
\* national average is a number greater than 0; a cell such as "0", "-5" or
\* "N/A" leaves the pair absent, with no SES band derived from it.
C3_PositiveValues ==
    /\ (Ran(loaded) /\ ~loaded.threw) =>
          /\ \A code \in DOMAIN loaded.value.stateData :
                Positive(loaded.value.stateData[code].Middle)
          /\ loaded.value.nationalAvg # Null => Positive(loaded.value.nationalAvg)
    /\ Ran(cleaned) =>
          /\ \A code \in DOMAIN cleaned.value.stateData :
                \A y \in DOMAIN cleaned.value.stateData[code] :
                    Positive(cleaned.value.stateData[code][y])
          /\ \A y \in DOMAIN cleaned.value.nationalAvgByYear :
                Positive(cleaned.value.nationalAvgByYear[y])

\* rows of the first 30 whose first cell is a known state name or
\* "United States"
NameRows(grid) ==
    {i \in 0..(Min({30, Len(grid)}) - 1) :
        \/ LookupCode(CellText(Row(grid, i), 0)) # ""
        \/ CellText(Row(grid, i), 0) = "United States"}

\* the year rows among the five rows above row j
YearRowsAbove(grid, j) ==
    {k \in Max({0, j - 5})..(j - 1) : hasYears(Row(grid, k))}

\* C4: in the name-anchored back-scan, with j the first name row, the header
\* is the row nearest to j among rows j-1 down to max(0, j-5) that has a year
\* cell, and data start is j.
C4_NearestHeader ==
    (Ran(loaded) /\ 3 \in loaded.locals.ran /\ NameRows(rows) # {}) =>
        LET j == Min(NameRows(rows))
        IN  YearRowsAbove(rows, j) # {} =>
                Located = <<Max(YearRowsAbove(rows, j)), j>>

\* C5: when no strategy locates a header row and a data-start row, the
\* extraction ends in an error and returns no table, in loadAllNAEPData and in
\* parseNAEPFile.
C5_NoHeaderIsError ==
    /\ (Ran(loaded) /\ Strategy1Rows(rows) = {} /\ Strategy2Rows(rows) = {}
                    /\ Strategy3Rows(rows) = {}) =>
          loaded.threw /\ "value" \notin DOMAIN loaded
    /\ (Ran(cleaned) /\ ScriptHeaderRows(rows) = {}) =>
          cleaned.threw /\ "value" \notin DOMAIN cleaned

\* C6: when a header row is located and none of its cells in columns 1..
\* matches the year pattern, extraction fails with an error instead of
\* producing a table, and no state record comes of the sheet.
C6_NoYearsIsError ==
    /\ (Ran(loaded) /\ loaded.locals.headerRowIndex # -1
                    /\ FindYearColumns(Row(rows, loaded.locals.headerRowIndex)) = <<>>) =>
          loaded.threw /\ "value" \notin DOMAIN loaded
    /\ (Ran(cleaned) /\ cleaned.locals.headerRowIdx # -1
                     /\ \A j \in 1..(Len(Row(rows, cleaned.locals.headerRowIdx)) - 1) :
                           ~YearPrefix(String(Cell(Row(rows, cleaned.locals.headerRowIdx), j)))) =>
          cleaned.threw /\ "value" \notin DOMAIN cleaned

\* C7: a structural failure of the extraction reaches the caller of fetchNAEP
\* as a failure: fetchNAEP does not answer it with a fulfilled promise holding
\* a substituted record of nulls.
C7_FailureSurfaces ==
    (lastReturn # Null /\ lastReturn.loadFailed) =>
        /\ lastReturn.settled = "rejected"
        /\ lastReturn.value # FailureRecord

\* C8: a call whose load fails leaves naepDataCache and localStorage as they
\* were: entries of other grades are kept, none is stored for the failing
\* grade and no localStorage item is written, so a later call finds nothing
\* cached that the failing call put there; and every entry naepDataCache
\* holds is the table extracted from that grade's file, never one of a file
\* whose extraction fails.
C8_FailureChangesNothing ==
    /\ [](\A g \in DOMAIN naepDataCache :
            /\ ~Extracted[files[g]].threw
            /\ naepDataCache[g] = Extracted[files[g]].value)
    /\ [][\A c \in calls :
             (c \notin calls' /\ lastReturn'.id = c.id /\ lastReturn'.loadFailed) =>
                 /\ naepDataCache' = naepDataCache
                 /\ localStorage' = localStorage]_vars

\* C8 witness: a load has failed while results of an earlier call sit in
\* naepDataCache and in localStorage.
C8_Witness ==
    /\ lastReturn # Null
    /\ lastReturn.loadFailed
    /\ DOMAIN naepDataCache # {}
    /\ DOMAIN localStorage # {}
    /\ lastReturn.grade \notin DOMAIN naepDataCache

\* the aggregate pattern: the name contains "united states"
AggregateName(text) == includes(toLowerCase(text), "united states")

\* names of the data rows from row start on that are not aggregate rows
EntityNames(grid, start) ==
    {CellText(Row(grid, i), 0) :
        i \in {k \in Max({0, start})..(Len(grid) - 1) :
                  ~AggregateName(CellText(Row(grid, k), 0))}}

\* C9: the aggregate row is never among the per-state records: every code of
\* the state map comes from a row that does not match the aggregate pattern,
\* and the map never holds the code 'National', in both extractors.
C9_AggregateExcluded ==
    /\ (Ran(loaded) /\ ~loaded.threw) =>
          /\ "National" \notin DOMAIN loaded.value.stateData
          /\ DOMAIN loaded.value.stateData \subseteq
                {LookupCode(name) : name \in EntityNames(rows, loaded.locals.dataStartRow)}
    /\ (Ran(cleaned) /\ ~cleaned.threw) =>
          /\ "National" \notin DOMAIN cleaned.value.stateData
          /\ DOMAIN cleaned.value.stateData \subseteq
                {MatchState(name) : name \in EntityNames(rows, cleaned.locals.dataStartIdx)}

\* C9 witness: loadAllNAEPData read a sheet whose data rows hold an aggregate
\* row with a value and a state row.
C9_Witness ==
    /\ Ran(loaded)
    /\ ~loaded.threw
    /\ loaded.value.nationalAvg # Null
    /\ DOMAIN loaded.value.stateData # {}
    /\ \E i \in loaded.locals.dataStartRow..(Len(rows) - 1) :
          CellText(Row(rows, i), 0) = "United States"

\* C10: a data row whose trimmed name equals a name-table key exactly or
\* case-insensitively, and whose score cell yields a score, gives a record
\* for that state, and rows whose name resolves neither way add nothing; this
\* holds for both extractors.
C10_CaseInsensitiveNames ==
    /\ (Ran(loaded) /\ ~loaded.threw) =>
          /\ \A i \in loaded.locals.dataStartRow..(Len(rows) - 1) :
                LET name == CellText(Row(rows, i), 0)
                IN  (/\ ~AggregateName(name)
                     /\ MatchState(name) # ""
                     /\ ScoreFrom(Cell(Row(rows, i), loaded.yearColumns[1].index)) # Null)
                    => MatchState(name) \in DOMAIN loaded.value.stateData
          /\ DOMAIN loaded.value.stateData \subseteq
                {MatchState(name) : name \in EntityNames(rows, loaded.locals.dataStartRow)} \ {""}
    /\ (Ran(cleaned) /\ ~cleaned.threw) =>
          /\ \A i \in Max({0, cleaned.locals.dataStartIdx})..(Len(rows) - 1) :
                LET name == CellText(Row(rows, i), 0)
                IN  (/\ ~AggregateName(name)
                     /\ MatchState(name) # ""
                     /\ DOMAIN YearScores(Row(rows, i), cleaned.value.years,
                                          cleaned.locals.yearColumns) # {})
                    => MatchState(name) \in DOMAIN cleaned.value.stateData
          /\ DOMAIN cleaned.value.stateData \subseteq
                {MatchState(name) : name \in EntityNames(rows, cleaned.locals.dataStartIdx)} \ {""}

---------------------------------------------------------------------------
(* Claims C11..C20 *)

\* the years of the list parseNAEPFile returned
ListedYears == {cleaned.value.years[k] : k \in 1..Len(cleaned.value.years)}

\* the years some state record of parseNAEPFile's table holds a value for
StoredYears ==
    UNION {DOMAIN cleaned.value.stateData[code] :
              code \in DOMAIN cleaned.value.stateData}

\* C11: in the table parseNAEPFile returns, the years list is exactly the set
\* of years for which at least one state record has a value: no listed year
\* has every state missing, and no year with a stored state value is left
\* out of the list.
C11_YearsHaveValues ==
    Ran(cleaned) => ListedYears = StoredYears

\* the years of loadAllNAEPData's yearColumns, in their order after the sort
ColumnYears ==
    [k \in 1..Len(loaded.yearColumns) |-> parseInt(loaded.yearColumns[k].year)]

\* C12: the year columns derived from a header row hold each year at most
\* once and only years of 1990..2025, and after the ordering of
\* loadAllNAEPData the most recent year is at index 0; a header that repeats
\* a year does not give two columns for it (loadAllNAEPData's yearColumns
\* and parseNAEPFile's years).
C12_YearColumnsUnique ==
    /\ (Ran(loaded) /\ ~loaded.threw) =>
          /\ \A j, k \in 1..Len(ColumnYears) :
                ColumnYears[j] = ColumnYears[k] => j = k
          /\ \A k \in 1..Len(ColumnYears) : ColumnYears[k] \in 1990..2025
          /\ \A k \in 1..Len(ColumnYears) : ColumnYears[1] >= ColumnYears[k]
    /\ Ran(cleaned) =>
          /\ \A j, k \in 1..Len(cleaned.value.years) :
                cleaned.value.years[j] = cleaned.value.years[k] => j = k
          /\ ListedYears \subseteq 1990..2025
          /\ Cardinality(DOMAIN cleaned.locals.yearColumns) =
                Len(cleaned.value.years)

\* the score the cleaned table holds for a state in the latest of the
\* grade's years; undefined when it holds none
BaseScore(state, grade) ==
    LET gradeData == naepCleaned[GradeKey(grade)]
        listed == {gradeData.years[k] : k \in 1..Len(gradeData.years)}
    IN  IF state \notin DOMAIN gradeData.states \/ listed = {} THEN Undefined
        ELSE Prop(gradeData.states[state], NatToString(Max(listed)))

\* base score s moved by the SES category: -18, 0, +18 points
Shifted(s, ses) ==
    CASE ses = "Low" -> Number(s.n - 180)
      [] ses = "High" -> Number(s.n + 180)
      [] OTHER -> s

\* no base score
Missing(s) == s.t \in {"null", "undefined"}

C14_MissingScoreIsNull ==
    /\ (answer # Null /\ answer.fn \in {"getStateScore", "renderLiteracyOutcomesScatter"}
                      /\ Missing(BaseScore(answer.state, answer.grade))) =>
          answer.value = Null
    /\ (Ran(loaded) /\ ~loaded.threw) =>
          \A state \in AvatarStates \ DOMAIN loaded.value.stateData :
              /\ ScoresFor(loaded.value, state).Low = Null
              /\ ScoresFor(loaded.value, state).Middle = Null
              /\ ScoresFor(loaded.value, state).High = Null

\* the argument is a number other than NaN
Numeric(x) == x.t = "number" /\ x # NaN

\* the thresholds in points with the label below each, and the label of the
\* first threshold above a score of s tenths
Thresholds ==
    (200 :> "Below Basic") @@ (240 :> "Basic") @@ (280 :> "Proficient")
FirstAbove(s) ==
    LET above == {bound \in DOMAIN Thresholds : bound * 10 > s}
    IN  IF above = {} THEN "Advanced" ELSE Thresholds[Min(above)]

\* C15: levelFromScore returns the label of the first threshold that strictly
\* exceeds the score, with thresholds 200 / 240 / 280: below 200 is
\* 'Below Basic', exactly 200 'Basic', exactly 240 'Proficient', exactly 280
\* and anything above 'Advanced'; a null or NaN score gives 'Unknown', and
\* every call returns.
C15_LevelThresholds ==
    (output # Null /\ output.fn = "levelFromScore") =>
        /\ Numeric(input.value) => output.value = FirstAbove(input.value.n)
        /\ input.value = Whole(200) => output.value = "Basic"
        /\ input.value = Whole(240) => output.value = "Proficient"
        /\ input.value = Whole(280) => output.value = "Advanced"
        /\ (Numeric(input.value) /\ input.value.n < 2000) =>
              output.value = "Below Basic"
        /\ ~Numeric(input.value) => output.value = "Unknown"

\* C15 witness: levelFromScore was called with a score on a threshold.
C15_Witness ==
    /\ output # Null
    /\ output.fn = "levelFromScore"
    /\ input.value = Whole(240)
    /\ output.value = "Proficient"

\* C16: getSESCategory gives 'Low' for a poverty rate r >= 30, 'Middle' for
\* 15 <= r < 30, 'High' for r < 15 and 'Unknown' for null or NaN; every
\* numeric rate falls in exactly one band, and the bounds 15 and 30 belong to
\* the band of the higher rates.
C16_SESBandsPartition ==
    (output # Null /\ output.fn = "getSESCategory") =>
        LET r == input.value.n
        IN  /\ Numeric(input.value) =>
                  /\ output.value = "Low" <=> r >= 300
                  /\ output.value = "Middle" <=> (150 <= r /\ r < 300)
                  /\ output.value = "High" <=> r < 150
                  /\ output.value \in {"Low", "Middle", "High"}
            /\ ~Numeric(input.value) => output.value = "Unknown"

\* C16 witness: getSESCategory was called with the rate 15, the lower bound
\* of the middle band.
C16_Witness ==
    /\ output # Null
    /\ output.fn = "getSESCategory"
    /\ input.value = Whole(15)
    /\ output.value = "Middle"

\* fewer than two points, or all x equal
Degenerate(points) ==
    \/ Len(points) < 2
    \/ \A j, k \in 1..Len(points) : points[j][1] = points[k][1]

\* C17: a linear fit returns null (no slope, no intercept) for fewer than 2
\* points and for points whose x values are all equal, and otherwise a slope
\* that is a finite number, never NaN and never a 0 put in place of the
\* missing fit; in calculateLinearRegression and in the trend line of
\* renderScatterPlot.
C17_DegenerateFitIsNull ==
    (output # Null /\ output.fn \in {"calculateLinearRegression", "trendLine"}) =>
        IF Degenerate(input.value) THEN output.value = Null
        ELSE /\ output.value # Null
             /\ "den" \in DOMAIN output.value.slope
             /\ output.value.slope.den # 0

\* C18: the range normalisation of the graduate counts gives every state
\* that has a count (and no graduation rate, the case hsRateProxy is for) a
\* value within 0..100, and the constant midpoint 50 when the smallest and
\* the greatest count are equal, never a division by zero or no value.
C18_ProxyWithinRange ==
    (output # Null /\ output.fn = "hsRateProxy") =>
        LET grads == input.value.grads
            counts == {grads[usps].n : usps \in DOMAIN grads}
        IN  \A usps \in DOMAIN grads \ DOMAIN input.value.rates :
                LET proxy == output.value[usps]
                IN  IF Max(counts) = Min(counts)
                    THEN proxy \in {Whole(50), Quotient(50, 1)}
                    ELSE /\ proxy # Null
                         /\ "den" \in DOMAIN proxy
                         /\ proxy.den > 0
                         /\ 0 <= proxy.num
                         /\ proxy.num <= 100 * proxy.den

\* x comes before y in a stable sort of states by books_per_student,
\* descending or ascending: by the key, and by the place in states when the
\* keys are equal
ComesBefore(states, x, y, descending) ==
    LET Place(s) == CHOOSE k \in 1..Len(states) : states[k] = s
        kx == x.books_per_student
        ky == y.books_per_student
    IN  \/ descending /\ kx > ky
        \/ ~descending /\ kx < ky
        \/ kx = ky /\ Place(x) < Place(y)

\* C19: getTopStates(data, n) and getBottomStates(data, n) return the first
\* min(n, number of states) states of a stable sort by books_per_student,
\* descending for top and ascending for bottom: states of equal
\* books_per_student keep their order of data.states, and the order of
\* data.states is as it was before the call.
C19_StableTopBottom ==
    (output # Null /\ output.fn \in {"getTopStates", "getBottomStates"}
                   /\ input.value # Null) =>
        LET states == input.value.states
            result == output.value
            descending == output.fn = "getTopStates"
            taken == {result[k] : k \in 1..Len(result)}
            all == {states[k] : k \in 1..Len(states)}
        IN  /\ output.data = input.value
            /\ Len(result) = Min({input.n, Len(states)})
            /\ taken \subseteq all
            /\ \A j, k \in 1..Len(result) :
                  j < k => ComesBefore(states, result[j], result[k], descending)
            /\ \A x \in taken, y \in all \ taken :
                  ComesBefore(states, x, y, descending)

\* C19 witness: getBottomStates returned two states of equal
\* books_per_student first, from a data.states that holds a state of
\* greater books_per_student before them.
C19_Witness ==
    /\ output # Null
    /\ output.fn = "getBottomStates"
    /\ input.value # Null
    /\ Len(output.value) >= 2
    /\ output.value[1].books_per_student = output.value[2].books_per_student
    /\ input.value.states[1].books_per_student
          > output.value[1].books_per_student
    /\ Len(output.value) < Len(input.value.states)

\* C20: the cached NAEP table is never mutated after it is loaded: after any
\* sequence of getStateScore, getNationalAverage, getStateScoresForContext
\* and map renders, the table a module cache holds, with the order of each
\* grade's years array, is the one that was stored when it was loaded.
C20_CacheNeverMutated ==
    /\ viz1NaepDataCache # Null => viz1NaepDataCache = naepCleaned
    /\ dataCache # Null => dataCache = naepCleaned

---------------------------------------------------------------------------
(* Claims C21..C30 *)

C22_LoadedOncePerGrade ==
    \A c, d \in calls : c.grade = d.grade => c = d

\* C23: outcomes data expires after 24 hours: a call of loadOutcomes with
\* useCache = true never returns a result that was computed 24 hours or
\* more before the call, whether the earlier result sits in localStorage or
\* in outcomesCache
C23_OutcomesExpire ==
    (output # Null /\ output.fn = "loadOutcomes" /\ output.useCache) =>
        output.at - output.computed < CACHE_DURATION

\* C24: the JSON round trip of the cached outcomes is lossless: the value
\* stored in localStorage, parsed back, is the result that was written, with
\* the same keys in every record and the same values, so what loadOutcomes
\* returns from a cache equals what it computes from the files
C24_RoundTripLossless ==
    /\ \A key \in DOMAIN localStorage :
          localStorage[key].data = OutcomesResult(input.value)
    /\ (output # Null /\ output.fn = "loadOutcomes") =>
          output.value = OutcomesResult(output.data)

\* the script's score of a state (or of the nation) for the last of years
LatestOf(scores, years) ==
    IF years # <<>> /\ years[Len(years)] \in DOMAIN scores
    THEN scores[years[Len(years)]]
    ELSE Null

\* C25: the two extractors do not drift: on every grid loadAllNAEPData and
\* parseNAEPFile locate the same header row and the same data-start row,
\* and, where the browser extractor returns, they keep the same states with
\* the same latest-year score and the same latest-year national average
C25_ExtractorsAgree ==
    (Ran(loaded) /\ Ran(cleaned)) =>
        /\ loaded.locals.headerRowIndex = cleaned.locals.headerRowIdx
        /\ loaded.locals.dataStartRow = cleaned.locals.dataStartIdx
        /\ ~loaded.threw =>
              /\ DOMAIN loaded.value.stateData = DOMAIN cleaned.value.stateData
              /\ \A code \in DOMAIN loaded.value.stateData :
                    code \in DOMAIN cleaned.value.stateData =>
                        loaded.value.stateData[code].Middle =
                            LatestOf(cleaned.value.stateData[code],
                                     cleaned.value.years)
              /\ loaded.value.nationalAvg =
                    LatestOf(cleaned.value.nationalAvgByYear, cleaned.value.years)

\* C26: in loadAllNAEPData, when an aggregate row gave a national value
\* every state's NationalAverage is that value, whether the state's row
\* stands above or below the aggregate row; a state's own score stands in
\* only when the sheet gave no national value
C26_NationalAverageEverywhere ==
    (Ran(loaded) /\ ~loaded.threw) =>
        \A code \in DOMAIN loaded.value.stateData :
            loaded.value.stateData[code].NationalAverage =
                IF loaded.value.nationalAvg # Null
                THEN loaded.value.nationalAvg
                ELSE loaded.value.stateData[code].Middle

\* the closure of a rendered reading map, when answer holds one
MapShown(a) == a # Null /\ a.fn = "renderReadingMap" /\ a.value # Null

Distance(a, b) == IF a >= b THEN a - b ELSE b - a

\* a state of the grade's table has a positive score for year
HasPositiveScore(grade, year) ==
    \E code \in DOMAIN naepCleaned[GradeKey(grade)].states :
        LET score == Prop(naepCleaned[GradeKey(grade)].states[code],
                          NatToString(year))
        IN  score.t = "number" /\ score.s = "" /\ score.n > 0

\* C29: on the reading map, after any slider inputs and grade changes,
\* yearsWithData lists years of the current grade some state has a positive
\* score for, and when the list is not empty currentYear is one of them;
\* every slider value is taken to the listed year nearest to it, the
\* earlier one on a tie; and a grade change leaves currentYear at the last
\* year of the new grade's list
C29_CurrentYearHasData ==
    /\ [](MapShown(answer) =>
            LET yearsWithData == answer.value.yearsWithData
                listed == {yearsWithData[i] : i \in DOMAIN yearsWithData}
            IN  /\ \A year \in listed : HasPositiveScore(answer.grade, year)
                /\ yearsWithData # <<>> =>
                      \E year \in listed : answer.value.currentYear = Whole(year)
                /\ yearsWithData # <<>> =>
                      \A value \in SliderValues :
                          \E year \in listed :
                              /\ snapYear(yearsWithData, value) = Whole(year)
                              /\ \A other \in listed :
                                    \/ Distance(year, value) < Distance(other, value)
                                    \/ /\ Distance(year, value) = Distance(other, value)
                                       /\ year <= other)
    /\ [][(/\ MapShown(answer)
           /\ MapShown(answer')
           /\ answer'.grade # answer.grade
           /\ answer'.value.yearsWithData # <<>>) =>
              answer'.value.currentYear =
                  Whole(answer'.value.yearsWithData[
                            Len(answer'.value.yearsWithData)])]_vars

\* the slider stood between two listed years that are equally far and was
\* taken to the earlier one: currentYear is not the latest year of a list
\* with a gap
C29_Witness ==
    /\ MapShown(answer)
    /\ answer.value.yearsWithData = <<2015, 2019>>
    /\ answer.value.currentYear = Whole(2015)
    /\ snapYear(answer.value.yearsWithData, 2017) = Whole(2015)

\* C30: getAvatarFromLocalStorage returns, for any content of the
\* 'characterData' item, an avatar whose grade is 4 or 8, whose sesCategory
\* is 'Low SES', 'Middle SES' or 'High SES' and whose state is a string
\* without lower-case letters; an absent, malformed or 'null' item gives
\* CA / 4 / 'Middle SES' / 'Student'
C30_AvatarNormalized ==
    (output # Null /\ output.fn = "getAvatarFromLocalStorage") =>
        /\ output.value.grade \in {Whole(4), Whole(8)}
        /\ output.value.sesCategory \in
              {Str("Low SES"), Str("Middle SES"), Str("High SES")}
        /\ output.value.state.t = "string"
        /\ \A i \in 1..Len(output.value.state.s), k \in 1..26 :
              Ch(output.value.state.s, i) # Ch(LowerCase, k)
        /\ output.data.json \in {"absent", "empty", "malformed", "null"} =>
              output.value = [state |-> Str("CA"), grade |-> Whole(4),
                              sesCategory |-> Str("Middle SES"),
                              name |-> Str("Student")]

\* C27: the gauge is locked by the reveal: once revealActual has run, no
\* drag, track click or further click of the reveal button changes
\* userPrediction or undoes isRevealed, the result message is appended once
\* and the explore controls are scheduled once and inserted at most once
C27_RevealLock ==
    /\ [](/\ gauge.resultMessages = (IF gauge.isRevealed THEN 1 ELSE 0)
          /\ gauge.timeouts + gauge.exploreControls =
                (IF gauge.isRevealed THEN 1 ELSE 0))
    /\ [][gauge.isRevealed =>
             /\ gauge'.isRevealed
             /\ gauge'.userPrediction = gauge.userPrediction
             /\ gauge'.resultMessages = gauge.resultMessages
             /\ gauge'.timeouts <= gauge.timeouts]_vars

\* the controls are in the page and a drag goes on after the reveal of a
\* prediction that had been moved
C27_Witness ==
    /\ gauge.isRevealed
    /\ gauge.isDragging
    /\ gauge.exploreControls = 1
    /\ gauge.userPrediction = domain[2]

=============================================================================
